---- MODULE Spec2Model ----
(***************************************************************************)
(* A model of the SeeYou CUP reader and writer (seeyou-cup-rs).            *)
(*                                                                         *)
(* Text is a sequence of one-character strings.  The csv crate's reader    *)
(* and writer are modelled character by character (CsvRecords,             *)
(* CsvWriteRecord), the parsers and formatters are operators translated    *)
(* from the source, and parse_content / parse_waypoints / parse_tasks run  *)
(* as a state machine whose position is pc.                                *)
(***************************************************************************)
EXTENDS Integers, Sequences, FiniteSets, TLC

(***************************************************************************)
(* Option and Result values.                                               *)
(***************************************************************************)
None == [some |-> FALSE]
Some(v) == [some |-> TRUE, v |-> v]
Ok(v) == [ok |-> TRUE, val |-> v]
Err(m) == [ok |-> FALSE, err |-> m]

(***************************************************************************)
(* Characters and text helpers.                                            *)
(***************************************************************************)
NL == "\n"
CR == "\r"
SP == " "
TAB == "\t"
COMMA == ","
QUOTE == "\""
\* One byte that is not valid UTF-8; the records iterator yields Err for a
\* record that holds it (csv::StringRecord validation).
BadByte == "#FF"

Digits == {"0", "1", "2", "3", "4", "5", "6", "7", "8", "9"}
Letters == {"a", "b", "c", "d", "e", "f", "g", "h", "i", "j", "k", "l", "m",
            "n", "o", "p", "q", "r", "s", "t", "u", "v", "w", "x", "y", "z",
            "A", "B", "C", "D", "E", "F", "G", "H", "I", "J", "K", "L", "M",
            "N", "O", "P", "Q", "R", "S", "T", "U", "V", "W", "X", "Y", "Z"}
Whitespace == {SP, NL, CR, TAB}

DigitVal(c) ==
  CASE c = "0" -> 0 [] c = "1" -> 1 [] c = "2" -> 2 [] c = "3" -> 3
    [] c = "4" -> 4 [] c = "5" -> 5 [] c = "6" -> 6 [] c = "7" -> 7
    [] c = "8" -> 8 [] c = "9" -> 9

DigitChar(n) ==
  CASE n = 0 -> "0" [] n = 1 -> "1" [] n = 2 -> "2" [] n = 3 -> "3"
    [] n = 4 -> "4" [] n = 5 -> "5" [] n = 6 -> "6" [] n = 7 -> "7"
    [] n = 8 -> "8" [] n = 9 -> "9"

\* char::to_lowercase / to_uppercase on the ASCII letters
LowerChar(c) ==
  CASE c = "A" -> "a" [] c = "B" -> "b" [] c = "C" -> "c" [] c = "D" -> "d"
    [] c = "E" -> "e" [] c = "F" -> "f" [] c = "G" -> "g" [] c = "H" -> "h"
    [] c = "I" -> "i" [] c = "J" -> "j" [] c = "K" -> "k" [] c = "L" -> "l"
    [] c = "M" -> "m" [] c = "N" -> "n" [] c = "O" -> "o" [] c = "P" -> "p"
    [] c = "Q" -> "q" [] c = "R" -> "r" [] c = "S" -> "s" [] c = "T" -> "t"
    [] c = "U" -> "u" [] c = "V" -> "v" [] c = "W" -> "w" [] c = "X" -> "x"
    [] c = "Y" -> "y" [] c = "Z" -> "z" [] OTHER -> c

UpperChar(c) ==
  CASE c = "a" -> "A" [] c = "b" -> "B" [] c = "c" -> "C" [] c = "d" -> "D"
    [] c = "e" -> "E" [] c = "f" -> "F" [] c = "g" -> "G" [] c = "h" -> "H"
    [] c = "i" -> "I" [] c = "j" -> "J" [] c = "k" -> "K" [] c = "l" -> "L"
    [] c = "m" -> "M" [] c = "n" -> "N" [] c = "o" -> "O" [] c = "p" -> "P"
    [] c = "q" -> "Q" [] c = "r" -> "R" [] c = "s" -> "S" [] c = "t" -> "T"
    [] c = "u" -> "U" [] c = "v" -> "V" [] c = "w" -> "W" [] c = "x" -> "X"
    [] c = "y" -> "Y" [] c = "z" -> "Z" [] OTHER -> c

\* str::to_lowercase
ToLower(s) == [i \in 1..Len(s) |-> LowerChar(s[i])]
ToUpper(s) == [i \in 1..Len(s) |-> UpperChar(s[i])]

\* str::eq_ignore_ascii_case
EqIgnoreCase(s, t) == ToLower(s) = ToLower(t)

\* str::starts_with / ends_with
StartsWith(s, p) == Len(s) >= Len(p) /\ SubSeq(s, 1, Len(p)) = p
EndsWith(s, p) == Len(s) >= Len(p) /\ SubSeq(s, Len(s) - Len(p) + 1, Len(s)) = p

Drop(s, n) == SubSeq(s, n + 1, Len(s))
Take(s, n) == SubSeq(s, 1, n)

RECURSIVE TrimStart(_)
TrimStart(s) ==
  IF s # <<>> /\ Head(s) \in Whitespace THEN TrimStart(Tail(s)) ELSE s

RECURSIVE TrimEnd(_)
TrimEnd(s) ==
  IF s # <<>> /\ s[Len(s)] \in Whitespace THEN TrimEnd(Take(s, Len(s) - 1)) ELSE s

\* str::trim
Trim(s) == TrimEnd(TrimStart(s))

RECURSIVE Concat(_)
Concat(ss) == IF ss = <<>> THEN <<>> ELSE Head(ss) \o Concat(Tail(ss))

\* [String]::join
RECURSIVE Join(_, _)
Join(ss, sep) ==
  IF ss = <<>> THEN <<>>
  ELSE IF Len(ss) = 1 THEN ss[1]
  ELSE ss[1] \o sep \o Join(Tail(ss), sep)

\* position of the first element of s that is in set S, 0 when there is none
RECURSIVE FindFirst(_, _, _)
FindFirst(s, S, i) ==
  IF i > Len(s) THEN 0
  ELSE IF s[i] \in S THEN i
  ELSE FindFirst(s, S, i + 1)

\* str::split(sep): the pieces between occurrences of the character sep
RECURSIVE Split(_, _)
Split(s, sep) ==
  LET p == FindFirst(s, {sep}, 1)
  IN IF p = 0 THEN <<s>> ELSE <<Take(s, p - 1)>> \o Split(Drop(s, p), sep)

\* str::split_once('='): None when there is no `=`
split_once(s) ==
  LET p == FindFirst(s, {"="}, 1)
  IN IF p = 0 THEN None ELSE Some([key |-> Take(s, p - 1), value |-> Drop(s, p)])

SelectSeqNonEmpty(ss) == SelectSeq(ss, LAMBDA x : x # <<>>)

Map(f(_), s) == [i \in 1..Len(s) |-> f(s[i])]

IsPrefixSeq(s, t) == Len(s) <= Len(t) /\ SubSeq(t, 1, Len(s)) = s

(***************************************************************************)
(* The csv crate.  ReaderBuilder::new().flexible(true): delimiter `,`,     *)
(* quote `"` doubled inside quoted fields, `\n` and `\r` end a record,     *)
(* empty lines are skipped, a quote inside an unquoted field is data, and  *)
(* an unterminated quoted field runs to the end of the input (no error).   *)
(* An item of the records iterator is Ok(record) or Err; the position of a *)
(* record is the reader's line when the read of that record began.         *)
(***************************************************************************)
CsvItem(fields, line) ==
  IF \E k \in 1..Len(fields) : \E j \in 1..Len(fields[k]) : fields[k][j] = BadByte
  THEN [ok |-> FALSE]
  ELSE [ok |-> TRUE, fields |-> fields, line |-> line]

\* the first position from i on whose character is in S, Len(text) + 1 when
\* there is none
NextIn(text, i, S) ==
  LET hits == {j \in i..Len(text) : text[j] \in S}
  IN IF hits = {} THEN Len(text) + 1
     ELSE CHOOSE j \in hits : \A k \in hits : j <= k

NextNotIn(text, i, S) ==
  LET hits == {j \in i..Len(text) : text[j] \notin S}
  IN IF hits = {} THEN Len(text) + 1
     ELSE CHOOSE j \in hits : \A k \in hits : j <= k

CountIn(text, from, to, c) == Cardinality({j \in from..to : text[j] = c})

\* the quote that closes the quoted field opened at position open: the first
\* quote that is not the first or second half of a doubled quote
ClosingQuoteOf(text, open) ==
  LET closers == {q \in (open + 1)..Len(text) :
                    /\ text[q] = QUOTE
                    /\ CountIn(text, open + 1, q, QUOTE) % 2 = 1
                    /\ (q = Len(text) \/ text[q + 1] # QUOTE)}
  IN IF closers = {} THEN Len(text) + 1
     ELSE CHOOSE q \in closers : \A k \in closers : q <= k

\* the inside of a quoted field with every doubled quote read as one quote
Undouble(s) ==
  LET keep == {k \in 1..Len(s) : s[k] # QUOTE \/ CountIn(s, 1, k, QUOTE) % 2 = 1}
      SelectKept[k \in 0..Len(s)] ==
        IF k = 0 THEN <<>>
        ELSE IF k \in keep THEN Append(SelectKept[k - 1], s[k]) ELSE SelectKept[k - 1]
  IN SelectKept[Len(s)]

FieldEnders == {COMMA, NL, CR}

\* the field that starts at position i: its value and the position of the
\* delimiter or terminator that ends it (Len(text) + 1 at the end of input)
CsvScanField(text, i) ==
  IF i <= Len(text) /\ text[i] = QUOTE
  THEN LET q == ClosingQuoteOf(text, i)
           e == NextIn(text, q + 1, FieldEnders)
       IN [value |-> Undouble(SubSeq(text, i + 1, q - 1)) \o SubSeq(text, q + 1, e - 1),
           end |-> e]
  ELSE LET e == NextIn(text, i, FieldEnders)
       IN [value |-> SubSeq(text, i, e - 1), end |-> e]

\* the fields of the record that starts at position i, and the position
\* after its terminator
RECURSIVE CsvScanRecord(_, _, _)
CsvScanRecord(text, i, fields) ==
  LET f == CsvScanField(text, i)
  IN IF f.end <= Len(text) /\ text[f.end] = COMMA
     THEN CsvScanRecord(text, f.end + 1, Append(fields, f.value))
     ELSE [fields |-> Append(fields, f.value), next |-> f.end + 1]

\* the records from position i on; empty lines are skipped, and the line of
\* a record is the reader's line where the read began
RECURSIVE CsvScan(_, _)
CsvScan(text, i) ==
  LET start == NextNotIn(text, i, {NL, CR})
      rec == CsvScanRecord(text, start, <<>>)
  IN IF start > Len(text) THEN <<>>
     ELSE <<CsvItem(rec.fields, 1 + CountIn(text, 1, i - 1, NL))>>
            \o CsvScan(text, rec.next)

\* every record of the input, the header row included, in order
CsvRecords(text) == CsvScan(text, 1)

\* ByteRecord::as_slice: the bytes of all fields, without the delimiters
as_slice(record) == Concat(record.fields)

(***************************************************************************)
(* csv::Writer (QuoteStyle::Necessary): a field holding the delimiter, a   *)
(* quote, `\n` or `\r` is wrapped in quotes with its quotes doubled; a     *)
(* record of one empty field is written `""`; records end with `\n`.       *)
(***************************************************************************)
RECURSIVE DoubleQuotes(_)
DoubleQuotes(s) ==
  IF s = <<>> THEN <<>>
  ELSE IF Head(s) = QUOTE THEN <<QUOTE, QUOTE>> \o DoubleQuotes(Tail(s))
  ELSE <<Head(s)>> \o DoubleQuotes(Tail(s))

NeedsQuotes(s) == \E i \in 1..Len(s) : s[i] \in {COMMA, QUOTE, NL, CR}

CsvField(s) ==
  IF NeedsQuotes(s) THEN <<QUOTE>> \o DoubleQuotes(s) \o <<QUOTE>> ELSE s

CsvWriteRecord(fields) ==
  IF fields = << <<>> >> THEN <<QUOTE, QUOTE, NL>>
  ELSE Join([i \in 1..Len(fields) |-> CsvField(fields[i])], <<COMMA>>) \o <<NL>>

(***************************************************************************)
(* Numbers.  An f64 is kept as the exact decimal [neg, n, d] = n / 10^d    *)
(* with trailing zeros removed; the texts of the model are plain decimal   *)
(* literals (no exponent, no inf/nan).                                     *)
(***************************************************************************)
RECURSIVE Pow10(_)
Pow10(k) == IF k = 0 THEN 1 ELSE 10 * Pow10(k - 1)

AllDigits(s) == \A i \in 1..Len(s) : s[i] \in Digits

RECURSIVE DigitsToNat(_)
DigitsToNat(s) ==
  IF s = <<>> THEN 0 ELSE 10 * DigitsToNat(Take(s, Len(s) - 1)) + DigitVal(s[Len(s)])

RECURSIVE NatToDigits(_)
NatToDigits(n) ==
  IF n < 10 THEN <<DigitChar(n)>> ELSE NatToDigits(n \div 10) \o <<DigitChar(n % 10)>>

\* format!("{:0w$}", n)
RECURSIVE PadZero(_, _)
PadZero(s, w) == IF Len(s) >= w THEN s ELSE PadZero(<<"0">> \o s, w)

RECURSIVE Normalize(_)
Normalize(x) ==
  IF x.d > 0 /\ x.n % 10 = 0
  THEN Normalize([neg |-> x.neg, n |-> x.n \div 10, d |-> x.d - 1])
  ELSE IF x.n = 0 THEN [neg |-> FALSE, n |-> 0, d |-> 0] ELSE x

Dec(n, d) == Normalize([neg |-> FALSE, n |-> n, d |-> d])

\* <f64 as FromStr>::from_str on plain decimal literals
ParseF64(s) ==
  LET signed == s # <<>> /\ s[1] \in {"+", "-"}
      body == IF signed THEN Tail(s) ELSE s
      p == FindFirst(body, {"."}, 1)
      ip == IF p = 0 THEN body ELSE Take(body, p - 1)
      fp == IF p = 0 THEN <<>> ELSE Drop(body, p)
  IN IF AllDigits(ip) /\ AllDigits(fp) /\ Len(ip) + Len(fp) > 0
     THEN Ok(Normalize([neg |-> signed /\ s[1] = "-",
                        n |-> DigitsToNat(ip \o fp), d |-> Len(fp)]))
     ELSE Err("invalid float literal")

\* <f64 as Display>::fmt
FormatF64(x) ==
  LET ip == NatToDigits(x.n \div Pow10(x.d))
      fp == PadZero(NatToDigits(x.n % Pow10(x.d)), x.d)
  IN (IF x.neg THEN <<"-">> ELSE <<>>) \o ip \o (IF x.d = 0 THEN <<>> ELSE <<".">> \o fp)

RECURSIVE StripZeros(_)
StripZeros(s) == IF Len(s) > 1 /\ s[1] = "0" THEN StripZeros(Tail(s)) ELSE s

\* a < b or a = b for digit strings of the same length
RECURSIVE DigitsLeq(_, _)
DigitsLeq(a, b) ==
  IF a = <<>> THEN TRUE
  ELSE IF DigitVal(a[1]) < DigitVal(b[1]) THEN TRUE
  ELSE IF DigitVal(a[1]) > DigitVal(b[1]) THEN FALSE
  ELSE DigitsLeq(Tail(a), Tail(b))

\* the largest values of the unsigned types, as digit strings
U8Max == <<"2", "5", "5">>
U16Max == <<"6", "5", "5", "3", "5">>
U32Max == <<"4", "2", "9", "4", "9", "6", "7", "2", "9", "5">>
UsizeMax == <<"1", "8", "4", "4", "6", "7", "4", "4", "0", "7", "3", "7", "0", "9",
              "5", "5", "1", "6", "1", "5">>

\* <uN as FromStr>::from_str: an optional `+`, then digits, value at most max.
\* val is the number when it has at most 9 digits and -1 beyond that (digits
\* always holds it).
ParseUInt(s, max) ==
  LET body == IF s # <<>> /\ s[1] = "+" THEN Tail(s) ELSE s
      sig == StripZeros(body)
  IN IF body # <<>> /\ AllDigits(body)
        /\ (Len(sig) < Len(max) \/ (Len(sig) = Len(max) /\ DigitsLeq(sig, max)))
     THEN [ok |-> TRUE, val |-> IF Len(sig) <= 9 THEN DigitsToNat(sig) ELSE 0 - 1,
           digits |-> sig]
     ELSE Err("invalid digit found in string")

\* `n as u32` for a parsed unsigned n: the value modulo 2^32, computed over
\* the digits in two halves of 16 bits
Half == 256 * 256
RECURSIVE LowBits(_, _, _)
LowBits(digits, high, low) ==
  IF digits = <<>> THEN high * Half + low
  ELSE LET next == low * 10 + DigitVal(Head(digits))
       IN LowBits(Tail(digits), (high * 10 + next \div Half) % Half, next % Half)
as_u32(n) == IF n.val >= 0 THEN n.val ELSE LowBits(n.digits, 0, 0)

(***************************************************************************)
(* types/dimensions.rs: the dimension_enum! macro.  A quantity is          *)
(* [unit, value]; the suffix table of a type lists (variant, suffix) in    *)
(* the order of the macro invocation.                                      *)
(***************************************************************************)
E(kind, arg) == [kind |-> kind, arg |-> arg]

ElevationSuffixes ==
  << [variant |-> "Feet", suffix |-> <<"f", "t">>],
     [variant |-> "Meters", suffix |-> <<"m">>] >>

RunwayDimensionSuffixes ==
  << [variant |-> "NauticalMiles", suffix |-> <<"n", "m">>],
     [variant |-> "StatuteMiles", suffix |-> <<"m", "l">>],
     [variant |-> "Meters", suffix |-> <<"m">>] >>

\* the Distance table with the one-letter suffix tried first
DistanceSuffixesMetersFirst ==
  << [variant |-> "Meters", suffix |-> <<"m">>],
     [variant |-> "Kilometers", suffix |-> <<"k", "m">>],
     [variant |-> "NauticalMiles", suffix |-> <<"n", "m">>],
     [variant |-> "StatuteMiles", suffix |-> <<"m", "l">>] >>

DistanceSuffixes ==
  << [variant |-> "Kilometers", suffix |-> <<"k", "m">>],
     [variant |-> "NauticalMiles", suffix |-> <<"n", "m">>],
     [variant |-> "StatuteMiles", suffix |-> <<"m", "l">>],
     [variant |-> "Meters", suffix |-> <<"m">>] >>

Quantity(unit, value) == [unit |-> unit, value |-> value]

\* the first entry of the table whose suffix ends s, 0 when none does
RECURSIVE FirstSuffix(_, _, _)
FirstSuffix(s, table, k) ==
  IF k > Len(table) THEN 0
  ELSE IF EndsWith(s, table[k].suffix) THEN k
  ELSE FirstSuffix(s, table, k + 1)

\* impl FromStr for $name
dimension_from_str(display_name, table, text) ==
  LET s == Trim(text)
      k == FirstSuffix(s, table, 1)
      unit_start == FindFirst(s, Letters, 1)
  IN IF k > 0
     THEN LET value == ParseF64(Take(s, Len(s) - Len(table[k].suffix)))
          IN IF value.ok THEN Ok(Quantity(table[k].variant, value.val))
             ELSE Err(E("Invalid " \o display_name, s))
     ELSE IF unit_start > 0
     THEN Err(E("Invalid " \o display_name \o " unit", Drop(s, unit_start - 1)))
     ELSE LET value == ParseF64(s)
          IN IF value.ok THEN Ok(Quantity("Meters", value.val))
             ELSE Err(E("Invalid " \o display_name, s))

\* impl Display for $name
dimension_fmt(table, q) ==
  LET k == CHOOSE j \in 1..Len(table) : table[j].variant = q.unit
  IN FormatF64(q.value) \o table[k].suffix

ParseElevation(s) == dimension_from_str("elevation", ElevationSuffixes, s)
ParseRunwayDimension(s) ==
  dimension_from_str("runway dimension", RunwayDimensionSuffixes, s)
ParseDistance(s) == dimension_from_str("distance", DistanceSuffixes, s)

(***************************************************************************)
(* parser/basics.rs and writer/basics.rs.  A coordinate is a signed        *)
(* integer number of 1/10000 minutes (600000 to the degree); fraction      *)
(* digits of a text beyond the fourth are below this resolution.           *)
(***************************************************************************)
UnitsPerMinute == 10 * 1000
UnitsPerDegree == 60 * UnitsPerMinute

\* the minutes text MM.mmm... (digits checked by the caller) in units
MinutesUnits(mm, frac) ==
  DigitsToNat(mm) * UnitsPerMinute
    + DigitsToNat(Take(frac \o <<"0", "0", "0", "0">>, 4))

\* parse_latitude / parse_longitude share their shape: dd is the number of
\* degree digits, hemi the two hemisphere letters (positive first), and
\* limit the largest magnitude in degrees.
parse_coordinate(what, dd, hemi, limit, s) ==
  LET bytes_len == Len(s)
      hemisphere == s[bytes_len]
  IN IF bytes_len < dd + 7
     THEN Err(E("Invalid " \o what \o " format (length)", s))
     ELSE IF ~ AllDigits(SubSeq(s, 1, dd + 2))
             \/ s[dd + 3] # "."
             \/ ~ AllDigits(SubSeq(s, dd + 4, bytes_len - 1))
             \/ hemisphere \notin {hemi[1], hemi[2]}
     THEN Err(E("Invalid " \o what \o " format (unexpected character)", s))
     ELSE LET degrees == ParseUInt(SubSeq(s, 1, dd), U8Max)
              minutes == MinutesUnits(SubSeq(s, dd + 1, dd + 2),
                                      SubSeq(s, dd + 4, bytes_len - 1))
          IN IF ~ degrees.ok
             THEN Err(E("panic", s))
             ELSE IF ~ (minutes < 60 * UnitsPerMinute)
             THEN Err(E(what \o " minutes out of range", s))
             ELSE LET magnitude == degrees.val * UnitsPerDegree + minutes
                      decimal_degrees ==
                        IF hemisphere = hemi[2] THEN 0 - magnitude ELSE magnitude
                  IN IF magnitude > limit * UnitsPerDegree
                     THEN Err(E(what \o " out of range", s))
                     ELSE Ok(decimal_degrees)

parse_latitude(s) == parse_coordinate("latitude", 2, <<"N", "S">>, 90, s)
parse_longitude(s) == parse_coordinate("longitude", 3, <<"E", "W">>, 180, s)

\* format!("{:06.3}", minutes): thousandths of a minute, ties to even
RoundThousandths(m) ==
  LET q == m \div 10
      r == m % 10
  IN IF r > 5 \/ (r = 5 /\ q % 2 = 1) THEN q + 1 ELSE q

format_coordinate(dd, hemi, v) ==
  LET hemisphere == IF v >= 0 THEN hemi[1] ELSE hemi[2]
      abs == IF v >= 0 THEN v ELSE 0 - v
      degrees == abs \div UnitsPerDegree
      minutes == RoundThousandths(abs % UnitsPerDegree)
  IN PadZero(NatToDigits(degrees), dd)
       \o PadZero(NatToDigits(minutes \div 1000), 2) \o <<".">>
       \o PadZero(NatToDigits(minutes % 1000), 3) \o <<hemisphere>>

format_latitude(lat) == format_coordinate(2, <<"N", "S">>, lat)
format_longitude(lon) == format_coordinate(3, <<"E", "W">>, lon)

(***************************************************************************)
(* parser/column_map.rs.  Column indices are 0-based, as in the source.    *)
(***************************************************************************)
ColName == <<"n", "a", "m", "e">>
ColCode == <<"c", "o", "d", "e">>
ColCountry == <<"c", "o", "u", "n", "t", "r", "y">>
ColLat == <<"l", "a", "t">>
ColLon == <<"l", "o", "n">>
ColElev == <<"e", "l", "e", "v">>
ColStyle == <<"s", "t", "y", "l", "e">>
ColRwdir == <<"r", "w", "d", "i", "r">>
ColRwlen == <<"r", "w", "l", "e", "n">>
ColRwwidth == <<"r", "w", "w", "i", "d", "t", "h">>
ColFreq == <<"f", "r", "e", "q">>
ColDesc == <<"d", "e", "s", "c">>
ColUserdata == <<"u", "s", "e", "r", "d", "a", "t", "a">>
ColPics == <<"p", "i", "c", "s">>

\* the seven fields of ColumnMap of type usize, in the order of the struct
MandatoryColumns ==
  <<ColName, ColCode, ColCountry, ColLat, ColLon, ColElev, ColStyle>>
\* the seven fields of type Option<usize>
OptionalColumns ==
  <<ColRwdir, ColRwlen, ColRwwidth, ColFreq, ColDesc, ColUserdata, ColPics>>
\* the header row the writer emits
CanonicalHeader == MandatoryColumns \o OptionalColumns

SeqToSet(s) == {s[i] : i \in 1..Len(s)}
KnownColumns == SeqToSet(CanonicalHeader)

\* the `for (idx, header) in headers.iter().enumerate()` loop: found maps a
\* column name to Some(idx) of its last occurrence
RECURSIVE ColumnScan(_, _, _)
ColumnScan(headers, idx, found) ==
  IF idx >= Len(headers) THEN found
  ELSE LET header == ToLower(headers[idx + 1])
       IN ColumnScan(headers, idx + 1,
                     IF header \in KnownColumns
                     THEN [found EXCEPT ![header] = Some(idx)]
                     ELSE found)

\* the first mandatory column that was not found, 0 when all were
RECURSIVE FirstMissing(_, _)
FirstMissing(found, k) ==
  IF k > Len(MandatoryColumns) THEN 0
  ELSE IF ~ found[MandatoryColumns[k]].some THEN k
  ELSE FirstMissing(found, k + 1)

\* a construction that takes column 0 for a mandatory column it did not find
build_column_map_defaulting(headers) ==
  LET found == ColumnScan(headers, 0, [c \in KnownColumns |-> None])
      at(c) == IF found[c].some THEN found[c].v ELSE 0
  IN Ok([name |-> at(ColName), code |-> at(ColCode), country |-> at(ColCountry),
         lat |-> at(ColLat), lon |-> at(ColLon), elev |-> at(ColElev),
         style |-> at(ColStyle),
         rwdir |-> found[ColRwdir], rwlen |-> found[ColRwlen],
         rwwidth |-> found[ColRwwidth], freq |-> found[ColFreq],
         desc |-> found[ColDesc], userdata |-> found[ColUserdata],
         pics |-> found[ColPics]])

build_column_map(headers) ==
  LET found == ColumnScan(headers, 0, [c \in KnownColumns |-> None])
      missing == FirstMissing(found, 1)
  IN IF missing > 0
     THEN Err(E("Missing required column", MandatoryColumns[missing]))
     ELSE Ok([name |-> found[ColName].v,
              code |-> found[ColCode].v,
              country |-> found[ColCountry].v,
              lat |-> found[ColLat].v,
              lon |-> found[ColLon].v,
              elev |-> found[ColElev].v,
              style |-> found[ColStyle].v,
              rwdir |-> found[ColRwdir],
              rwlen |-> found[ColRwlen],
              rwwidth |-> found[ColRwwidth],
              freq |-> found[ColFreq],
              desc |-> found[ColDesc],
              userdata |-> found[ColUserdata],
              pics |-> found[ColPics]])

(***************************************************************************)
(* parser/waypoint.rs: one record to one Waypoint.                         *)
(***************************************************************************)
\* StringRecord::get
get(fields, idx) == IF idx < Len(fields) THEN Some(fields[idx + 1]) ELSE None
unwrap_or_default(o) == IF o.some THEN o.v ELSE <<>>
\* Option<usize>::and_then(|idx| record.get(idx))
and_then_get(col, fields) == IF col.some THEN get(fields, col.v) ELSE None
\* Option::filter(|s| !s.is_empty())
filter_non_empty(o) == IF o.some /\ o.v # <<>> THEN o ELSE None

\* WaypointStyle as u8: Unknown is 0, the known styles are 1..21
StyleUnknown == 0
StyleLast == 21

parse_waypoint_style(s) ==
  IF \E k \in 1..StyleLast : s = NatToDigits(k)
  THEN CHOOSE k \in 1..StyleLast : s = NatToDigits(k)
  ELSE StyleUnknown

parse_runway_direction(s) ==
  LET r == ParseUInt(s, U16Max)
  IN IF r.ok THEN r ELSE Err(E("Invalid runway direction", s))

parse_pictures(s) == SelectSeqNonEmpty(Map(Trim, Split(s, ";")))

\* Option<&str>::map(parse).transpose()
map_transpose(parse(_), o) ==
  IF o.some THEN (LET r == parse(o.v) IN IF r.ok THEN Ok(Some(r.val)) ELSE r)
  ELSE Ok(None)

parse_waypoint(column_map, fields) ==
  LET name == unwrap_or_default(get(fields, column_map.name))
      code == unwrap_or_default(get(fields, column_map.code))
      country == unwrap_or_default(get(fields, column_map.country))
      latitude == parse_latitude(unwrap_or_default(get(fields, column_map.lat)))
      longitude == parse_longitude(unwrap_or_default(get(fields, column_map.lon)))
      elevation == ParseElevation(unwrap_or_default(get(fields, column_map.elev)))
      style == parse_waypoint_style(unwrap_or_default(get(fields, column_map.style)))
      runway_direction ==
        map_transpose(parse_runway_direction,
                      filter_non_empty(and_then_get(column_map.rwdir, fields)))
      runway_length ==
        map_transpose(ParseRunwayDimension,
                      filter_non_empty(and_then_get(column_map.rwlen, fields)))
      runway_width ==
        map_transpose(ParseRunwayDimension,
                      filter_non_empty(and_then_get(column_map.rwwidth, fields)))
      frequency == unwrap_or_default(and_then_get(column_map.freq, fields))
      description == unwrap_or_default(and_then_get(column_map.desc, fields))
      userdata == unwrap_or_default(and_then_get(column_map.userdata, fields))
      pics == and_then_get(column_map.pics, fields)
      pictures == IF pics.some THEN parse_pictures(pics.v) ELSE <<>>
  IN IF name = <<>> THEN Err(E("Name field cannot be empty", <<>>))
     ELSE IF ~ latitude.ok THEN latitude
     ELSE IF ~ longitude.ok THEN longitude
     ELSE IF ~ elevation.ok THEN elevation
     ELSE IF ~ runway_direction.ok THEN runway_direction
     ELSE IF ~ runway_length.ok THEN runway_length
     ELSE IF ~ runway_width.ok THEN runway_width
     ELSE Ok([name |-> name,
              code |-> code,
              country |-> country,
              latitude |-> latitude.val,
              longitude |-> longitude.val,
              elevation |-> elevation.val,
              style |-> style,
              runway_direction |-> runway_direction.val,
              runway_length |-> runway_length.val,
              runway_width |-> runway_width.val,
              frequency |-> frequency,
              description |-> description,
              userdata |-> userdata,
              pictures |-> pictures])

(***************************************************************************)
(* writer/waypoint.rs: the 14 fields of a waypoint row, in canonical order *)
(***************************************************************************)
OptionText(fmt(_), o) == IF o.some THEN fmt(o.v) ELSE <<>>
FormatRunwayDirection(d) == PadZero(NatToDigits(d), 3)
FormatElevation(q) == dimension_fmt(ElevationSuffixes, q)
FormatRunwayDimension(q) == dimension_fmt(RunwayDimensionSuffixes, q)
FormatDistance(q) == dimension_fmt(DistanceSuffixes, q)

WaypointFields(waypoint) ==
  << waypoint.name,
     waypoint.code,
     waypoint.country,
     format_latitude(waypoint.latitude),
     format_longitude(waypoint.longitude),
     FormatElevation(waypoint.elevation),
     NatToDigits(waypoint.style),
     OptionText(FormatRunwayDirection, waypoint.runway_direction),
     OptionText(FormatRunwayDimension, waypoint.runway_length),
     OptionText(FormatRunwayDimension, waypoint.runway_width),
     waypoint.frequency,
     waypoint.description,
     waypoint.userdata,
     Join(waypoint.pictures, <<";">>) >>

write_waypoint(waypoint) == CsvWriteRecord(WaypointFields(waypoint))

(***************************************************************************)
(* parser/task.rs: the sub-grammars of the task section.                   *)
(***************************************************************************)
PrefixOptions == <<"O", "p", "t", "i", "o", "n", "s">>
PrefixObsZone == <<"O", "b", "s", "Z", "o", "n", "e", "=">>
PrefixPoint == <<"P", "o", "i", "n", "t", "=">>
PrefixStarts == <<"S", "T", "A", "R", "T", "S", "=">>

NewTask(description, waypoint_names) ==
  [description |-> description,
   waypoint_names |-> waypoint_names,
   options |-> None,
   observation_zones |-> <<>>,
   points |-> <<>>,
   multiple_starts |-> <<>>]

parse_task_line(fields) ==
  IF fields = <<>> THEN Err(E("Empty task line", <<>>))
  ELSE Ok(NewTask(IF fields[1] = <<>> THEN None ELSE Some(fields[1]),
                  SelectSeqNonEmpty(Tail(fields))))

EmptyOptions ==
  [no_start |-> None, task_time |-> None, wp_dis |-> None, near_dis |-> None,
   near_alt |-> None, min_dis |-> None, random_order |-> None, max_pts |-> None,
   before_pts |-> None, after_pts |-> None, bonus |-> None]

\* value.parse().unwrap_or_default() in an Option: the field is always filled
ParseOrDefault(r) == Some(IF r.ok THEN r.val ELSE <<>>)

\* value.parse().ok()
ParseOk(r) == IF r.ok THEN Some(r.val) ELSE None

IsTrue(value) == EqIgnoreCase(value, <<"t", "r", "u", "e">>)

\* one `part` of the Options line applied to the options built so far
OptionsPart(options, part) ==
  LET kv == split_once(part)
      key == kv.v.key
      value == kv.v.value
  IN IF ~ kv.some THEN Ok(options)
     ELSE CASE key = <<"N", "o", "S", "t", "a", "r", "t">> -> Ok([options EXCEPT !.no_start = Some(value)])
            [] key = <<"T", "a", "s", "k", "T", "i", "m", "e">> -> Ok([options EXCEPT !.task_time = Some(value)])
            [] key = <<"W", "p", "D", "i", "s">> -> Ok([options EXCEPT !.wp_dis = Some(IsTrue(value))])
            [] key = <<"N", "e", "a", "r", "D", "i", "s">> ->
                 LET r == ParseDistance(value)
                 IN IF r.ok THEN Ok([options EXCEPT !.near_dis = Some(r.val)]) ELSE r
            [] key = <<"N", "e", "a", "r", "A", "l", "t">> ->
                 LET r == ParseElevation(value)
                 IN IF r.ok THEN Ok([options EXCEPT !.near_alt = Some(r.val)]) ELSE r
            [] key = <<"M", "i", "n", "D", "i", "s">> -> Ok([options EXCEPT !.min_dis = Some(IsTrue(value))])
            [] key = <<"R", "a", "n", "d", "o", "m", "O", "r", "d", "e", "r">> ->
                 Ok([options EXCEPT !.random_order = Some(IsTrue(value))])
            [] key = <<"M", "a", "x", "P", "t", "s">> ->
                 Ok([options EXCEPT !.max_pts = ParseOk(ParseUInt(value, U32Max))])
            [] key = <<"B", "e", "f", "o", "r", "e", "P", "t", "s">> ->
                 Ok([options EXCEPT !.before_pts = ParseOk(ParseUInt(value, U32Max))])
            [] key = <<"A", "f", "t", "e", "r", "P", "t", "s">> ->
                 Ok([options EXCEPT !.after_pts = ParseOk(ParseUInt(value, U32Max))])
            [] key = <<"B", "o", "n", "u", "s">> -> Ok([options EXCEPT !.bonus = ParseOk(ParseF64(value))])
            [] OTHER -> Ok(options)

\* a `for part in ... { ...? }` loop: step applied part by part, stopping at
\* the first Err
RECURSIVE FoldParts(_, _, _)
FoldParts(step(_, _), acc, parts) ==
  IF parts = <<>> THEN Ok(acc)
  ELSE LET r == step(acc, Head(parts))
       IN IF r.ok THEN FoldParts(step, r.val, Tail(parts)) ELSE r

parse_options_line(fields) == FoldParts(OptionsPart, EmptyOptions, Tail(fields))

\* ObsZoneStyle::from_u8
ObsZoneStyleLast == 4
\* a from_u8 that takes every value beyond the last style for the last style
ObsZoneStyle_from_u8_saturating(value) ==
  Some(IF value <= ObsZoneStyleLast THEN value ELSE ObsZoneStyleLast)

ObsZoneStyle_from_u8(value) == IF value <= ObsZoneStyleLast THEN Some(value) ELSE None

EmptyObsZone ==
  [index |-> None, style |-> None, r1 |-> None, a1 |-> None, r2 |-> None,
   a2 |-> None, a12 |-> None, line |-> None]

ObsZonePart(zone, part) ==
  LET kv == split_once(part)
      key == kv.v.key
      value == kv.v.value
  IN IF ~ kv.some THEN Ok(zone)
     ELSE CASE key = <<"O", "b", "s", "Z", "o", "n", "e">> ->
                 Ok([zone EXCEPT !.index = ParseOk(ParseUInt(value, U32Max))])
            [] key = <<"S", "t", "y", "l", "e">> ->
                 LET r == ParseUInt(value, U8Max)
                 IN IF r.ok THEN Ok([zone EXCEPT !.style = ObsZoneStyle_from_u8(r.val)])
                    ELSE Ok(zone)
            [] key = <<"R", "1">> ->
                 LET r == ParseDistance(value)
                 IN IF r.ok THEN Ok([zone EXCEPT !.r1 = Some(r.val)]) ELSE r
            [] key = <<"A", "1">> -> Ok([zone EXCEPT !.a1 = ParseOk(ParseF64(value))])
            [] key = <<"R", "2">> ->
                 LET r == ParseDistance(value)
                 IN IF r.ok THEN Ok([zone EXCEPT !.r2 = Some(r.val)]) ELSE r
            [] key = <<"A", "2">> -> Ok([zone EXCEPT !.a2 = ParseOk(ParseF64(value))])
            [] key = <<"A", "1", "2">> -> Ok([zone EXCEPT !.a12 = ParseOk(ParseF64(value))])
            [] key = <<"L", "i", "n", "e">> ->
                 Ok([zone EXCEPT !.line = Some(value = <<"1">> \/ IsTrue(value))])
            [] OTHER -> Ok(zone)

\* the two `ok_or_else(..)?` and the struct literal that end parse_obszone_line
ObsZoneChecked(r) ==
  IF ~ r.ok THEN r
  ELSE IF ~ r.val.index.some THEN Err(E("Missing ObsZone index", <<>>))
  ELSE IF ~ r.val.style.some THEN Err(E("Missing ObsZone style", <<>>))
  ELSE Ok([index |-> r.val.index.v, style |-> r.val.style.v, r1 |-> r.val.r1,
           a1 |-> r.val.a1, r2 |-> r.val.r2, a2 |-> r.val.a2, a12 |-> r.val.a12,
           line |-> r.val.line])

parse_obszone_line(fields) ==
  ObsZoneChecked(FoldParts(ObsZonePart, EmptyObsZone, fields))

\* str::strip_prefix(p).unwrap_or(s)
StripPrefix(s, p) == IF StartsWith(s, p) THEN Drop(s, Len(p)) ELSE s

\* str::trim_start_matches(p): every leading repetition of p is removed
RECURSIVE TrimStartMatches(_, _)
TrimStartMatches(s, p) ==
  IF StartsWith(s, p) THEN TrimStartMatches(Drop(s, Len(p)), p) ELSE s

parse_starts_line(fields) ==
  Ok(SelectSeqNonEmpty(
       [i \in 1..Len(fields) |->
          Trim(IF i = 1 THEN StripPrefix(fields[i], PrefixStarts) ELSE fields[i])]))

\* the two `?` and the pair that end parse_inline_waypoint_line_with_index;
\* the usize of the pair is the parsed number, val and digits
IndexedWaypoint(point_idx_str, point_index, waypoint) ==
  IF ~ point_index.ok THEN Err(E("Invalid point index", point_idx_str))
  ELSE IF ~ waypoint.ok THEN waypoint
  ELSE Ok(<<point_index, waypoint.val>>)

\* the inline record keyed by the canonical header instead of the table's
parse_inline_waypoint_line_canonical(fields, column_map) ==
  IndexedWaypoint(TrimStartMatches(fields[1], PrefixPoint),
                  ParseUInt(TrimStartMatches(fields[1], PrefixPoint), UsizeMax),
                  parse_waypoint(build_column_map(CanonicalHeader).val, Tail(fields)))

parse_inline_waypoint_line_with_index(fields, column_map) ==
  IndexedWaypoint(TrimStartMatches(fields[1], PrefixPoint),
                  ParseUInt(TrimStartMatches(fields[1], PrefixPoint), UsizeMax),
                  parse_waypoint(column_map, Tail(fields)))

(***************************************************************************)
(* writer/task.rs and writer/mod.rs.                                       *)
(***************************************************************************)
TASK_SEPARATOR == <<"-", "-", "-", "-", "-", "R", "e", "l", "a", "t", "e", "d", SP, "T", "a", "s", "k", "s", "-", "-", "-", "-", "-">>

BoolText(b) == IF b THEN <<"T", "r", "u", "e">> ELSE <<"F", "a", "l", "s", "e">>

\* `if let Some(x) = field { parts.push(format!("Key={}", x)) }`
KeyValue(key, fmt(_), o) == IF o.some THEN << key \o <<"=">> \o fmt(o.v) >> ELSE <<>>

Identity(x) == x

\* the `parts` of format_task_options
task_options_parts(options) ==
      (<<PrefixOptions>>
         \o KeyValue(<<"N", "o", "S", "t", "a", "r", "t">>, Identity, options.no_start)
         \o KeyValue(<<"T", "a", "s", "k", "T", "i", "m", "e">>, Identity, options.task_time)
         \o KeyValue(<<"W", "p", "D", "i", "s">>, BoolText, options.wp_dis)
         \o KeyValue(<<"N", "e", "a", "r", "D", "i", "s">>, FormatDistance, options.near_dis)
         \o KeyValue(<<"N", "e", "a", "r", "A", "l", "t">>, FormatElevation, options.near_alt)
         \o KeyValue(<<"M", "i", "n", "D", "i", "s">>, BoolText, options.min_dis)
         \o KeyValue(<<"R", "a", "n", "d", "o", "m", "O", "r", "d", "e", "r">>, BoolText, options.random_order)
         \o KeyValue(<<"M", "a", "x", "P", "t", "s">>, NatToDigits, options.max_pts)
         \o KeyValue(<<"B", "e", "f", "o", "r", "e", "P", "t", "s">>, NatToDigits, options.before_pts)
         \o KeyValue(<<"A", "f", "t", "e", "r", "P", "t", "s">>, NatToDigits, options.after_pts)
         \o KeyValue(<<"B", "o", "n", "u", "s">>, FormatF64, options.bonus))

format_task_options(options) == Join(task_options_parts(options), <<COMMA>>)

\* the `parts` of format_observation_zone
observation_zone_parts(obs_zone) ==
      (<< PrefixObsZone \o NatToDigits(obs_zone.index),
          <<"S", "t", "y", "l", "e", "=">> \o NatToDigits(obs_zone.style) >>
         \o KeyValue(<<"R", "1">>, FormatDistance, obs_zone.r1)
         \o KeyValue(<<"A", "1">>, FormatF64, obs_zone.a1)
         \o KeyValue(<<"R", "2">>, FormatDistance, obs_zone.r2)
         \o KeyValue(<<"A", "2">>, FormatF64, obs_zone.a2)
         \o KeyValue(<<"A", "1", "2">>, FormatF64, obs_zone.a12)
         \o KeyValue(<<"L", "i", "n", "e">>, BoolText, obs_zone.line))

format_observation_zone(obs_zone) == Join(observation_zone_parts(obs_zone), <<COMMA>>)

\* format!("\"{}\"", s)
QuoteName(s) == <<QUOTE>> \o s \o <<QUOTE>>

format_multiple_starts(starts) ==
  PrefixStarts \o Join(Map(QuoteName, starts), <<COMMA>>)

format_inline_waypoint_line(index, waypoint) ==
  TrimEnd(CsvWriteRecord(<<PrefixPoint \o NatToDigits(index)>> \o WaypointFields(waypoint)))

\* result.push('\n'); result.push_str(line) for every line
RECURSIVE PushLines(_)
PushLines(lines) ==
  IF lines = <<>> THEN <<>> ELSE <<NL>> \o Head(lines) \o PushLines(Tail(lines))

FormatPoint(point) == format_inline_waypoint_line(point[1], point[2])

\* format_task with the Point lines pushed before the ObsZone lines
format_task_points_first(task) ==
  TrimEnd(CsvWriteRecord(<<unwrap_or_default(task.description)>> \o task.waypoint_names))
    \o (IF task.options.some
        THEN <<NL>> \o format_task_options(task.options.v) ELSE <<>>)
    \o PushLines(Map(FormatPoint, task.points))
    \o PushLines(Map(format_observation_zone, task.observation_zones))
    \o (IF task.multiple_starts # <<>>
        THEN <<NL>> \o format_multiple_starts(task.multiple_starts) ELSE <<>>)

format_task(task) ==
  TrimEnd(CsvWriteRecord(<<unwrap_or_default(task.description)>> \o task.waypoint_names))
    \o (IF task.options.some
        THEN <<NL>> \o format_task_options(task.options.v) ELSE <<>>)
    \o PushLines(Map(format_observation_zone, task.observation_zones))
    \o PushLines(Map(FormatPoint, task.points))
    \o (IF task.multiple_starts # <<>>
        THEN <<NL>> \o format_multiple_starts(task.multiple_starts) ELSE <<>>)

TaskAndNewline(task) == format_task(task) \o <<NL>>

format_cup_file(cup_file) ==
  CsvWriteRecord(CanonicalHeader)
    \o Concat(Map(write_waypoint, cup_file.waypoints))
    \o (IF cup_file.tasks # <<>>
        THEN TASK_SEPARATOR \o <<NL>> \o Concat(Map(TaskAndNewline, cup_file.tasks))
        ELSE <<>>)

(***************************************************************************)
(* The reader as a state machine: parse_content (parser/mod.rs), then the  *)
(* loop of parse_waypoints (parser/waypoint.rs), then the two loops of     *)
(* parse_tasks (parser/task.rs).                                           *)
(***************************************************************************)
VARIABLES
  input,      \* what this run was started on (a CupFile to write, or the parts of a text)
  content,    \* the text handed to parse_content
  pc,         \* "write", "parse", "waypoints", "tasks", "attach" or "done"
  csv_iter,   \* the records the csv iterator has yet to yield
  column_map, \* Some(ColumnMap) once the header row is mapped
  waypoints,  \* parse_waypoints: the Vec being filled
  tasks,      \* parse_tasks: the Vec being filled
  task,       \* parse_tasks: the task whose attachments are being collected
  result      \* [status |-> "running" | "ok" | "err", ...]: what parse returns

vars == <<input, content, pc, csv_iter, column_map, waypoints, tasks, task, result>>

Running == [status |-> "running"]
Success == [status |-> "ok"]
\* Error::Parse(ParseIssue {message, line})
Failure(error, line) == [status |-> "err", error |-> error, line |-> line]
\* Error::Csv
CsvFailure == Failure(E("CSV error", <<>>), None)

NoTask == NewTask(None, <<>>)

\* the prefix test on record.as_byte_record().as_slice()
IsOptionsLine(record) == StartsWith(as_slice(record), PrefixOptions)
IsObsZoneLine(record) == StartsWith(as_slice(record), PrefixObsZone)
IsPointLine(record) == StartsWith(as_slice(record), PrefixPoint)
IsStartsLine(record) == StartsWith(as_slice(record), PrefixStarts)
\* the outer loop's test without its `ObsZone=` arm
IsMarkerLineWithoutObsZone(record) ==
  IsOptionsLine(record) \/ IsPointLine(record) \/ IsStartsLine(record)
IsMarkerLine(record) ==
  IsOptionsLine(record) \/ IsObsZoneLine(record) \/ IsPointLine(record)
    \/ IsStartsLine(record)

\* an assignment that keeps the fields of the earlier options which the new
\* options leave unset
set_options_merged(t, options) ==
  [t EXCEPT !.options =
     Some([f \in DOMAIN options |->
             IF options[f] = None /\ t.options # None THEN t.options.v[f]
             ELSE options[f]])]
\* a push to the front of the list
push_observation_zone_front(t, zone) ==
  [t EXCEPT !.observation_zones = <<zone>> \o @]
\* the four assignments to the current task in the look-ahead loop
set_options(t, options) == [t EXCEPT !.options = Some(options)]
push_observation_zone(t, zone) ==
  [t EXCEPT !.observation_zones = Append(@, zone)]
\* `point_index as u32`
\* task.points.push((point_index as u32, inline_waypoint))
push_point(t, point) == [t EXCEPT !.points = Append(@, <<as_u32(point[1]), point[2]>>)]
set_multiple_starts(t, starts) == [t EXCEPT !.multiple_starts = starts]

Finish(r) ==
  /\ pc' = "done"
  /\ result' = r

\* writer::write up to the text: format_cup_file
Write ==
  /\ pc = "write"
  /\ content' = format_cup_file(input.cup)
  /\ pc' = "parse"
  /\ UNCHANGED <<input, csv_iter, column_map, waypoints, tasks, task, result>>

\* an empty text read as a table without rows: Ok(CupFile) with no waypoints
ParseEmptyAsSuccess ==
  /\ pc = "parse"
  /\ Trim(content) = <<>>
  /\ Finish(Success)
  /\ UNCHANGED <<input, content, csv_iter, column_map, waypoints, tasks, task>>

\* parse_content: `content.trim()` is empty
ParseEmpty ==
  /\ pc = "parse"
  /\ Trim(content) = <<>>
  /\ Finish(Failure(E("Empty file", <<>>), None))
  /\ UNCHANGED <<input, content, csv_iter, column_map, waypoints, tasks, task>>

\* parse_content: csv_reader.headers()? fails
ParseHeaderCsvError ==
  /\ pc = "parse"
  /\ Trim(content) # <<>>
  /\ ~ CsvRecords(Trim(content))[1].ok
  /\ Finish(CsvFailure)
  /\ UNCHANGED <<input, content, csv_iter, column_map, waypoints, tasks, task>>

\* parse_content: the column map cannot be built
ParseHeaderMissingColumn ==
  /\ pc = "parse"
  /\ Trim(content) # <<>>
  /\ LET records == CsvRecords(Trim(content))
     IN /\ records[1].ok
        /\ ~ build_column_map(records[1].fields).ok
        /\ Finish(Failure(build_column_map(records[1].fields).err, None))
  /\ UNCHANGED <<input, content, csv_iter, column_map, waypoints, tasks, task>>

\* parse_content: the column map is built, the records iterator is created
ParseHeader ==
  /\ pc = "parse"
  /\ Trim(content) # <<>>
  /\ LET records == CsvRecords(Trim(content))
     IN /\ records[1].ok
        /\ build_column_map(records[1].fields).ok
        /\ column_map' = Some(build_column_map(records[1].fields).val)
        /\ csv_iter' = Tail(records)
  /\ pc' = "waypoints"
  /\ UNCHANGED <<input, content, waypoints, tasks, task, result>>

\* parse_waypoints: the iterator is exhausted; parse_tasks then finds nothing
WaypointsEnd ==
  /\ pc = "waypoints"
  /\ csv_iter = <<>>
  /\ pc' = "tasks"
  /\ UNCHANGED <<input, content, csv_iter, column_map, waypoints, tasks, task, result>>

\* parse_waypoints: `let record = result?;`
WaypointsCsvError ==
  /\ pc = "waypoints"
  /\ csv_iter # <<>>
  /\ ~ Head(csv_iter).ok
  /\ csv_iter' = Tail(csv_iter)
  /\ Finish(CsvFailure)
  /\ UNCHANGED <<input, content, column_map, waypoints, tasks, task>>

\* parse_waypoints: the separator line ends the table
WaypointsSeparator ==
  /\ pc = "waypoints"
  /\ csv_iter # <<>>
  /\ Head(csv_iter).ok
  /\ as_slice(Head(csv_iter)) = TASK_SEPARATOR
  /\ csv_iter' = Tail(csv_iter)
  /\ pc' = "tasks"
  /\ UNCHANGED <<input, content, column_map, waypoints, tasks, task, result>>

\* parse_waypoints: a row becomes a Waypoint
WaypointRow ==
  /\ pc = "waypoints"
  /\ csv_iter # <<>>
  /\ Head(csv_iter).ok
  /\ as_slice(Head(csv_iter)) # TASK_SEPARATOR
  /\ LET waypoint == parse_waypoint(column_map.v, Head(csv_iter).fields)
     IN /\ waypoint.ok
        /\ waypoints' = Append(waypoints, waypoint.val)
  /\ csv_iter' = Tail(csv_iter)
  /\ UNCHANGED <<input, content, pc, column_map, tasks, task, result>>

\* parse_waypoints: `.map_err(|error| ParseIssue::new(error).with_record(&record))?`
WaypointRowError ==
  /\ pc = "waypoints"
  /\ csv_iter # <<>>
  /\ Head(csv_iter).ok
  /\ as_slice(Head(csv_iter)) # TASK_SEPARATOR
  /\ LET waypoint == parse_waypoint(column_map.v, Head(csv_iter).fields)
     IN /\ ~ waypoint.ok
        /\ Finish(Failure(waypoint.err, Some(Head(csv_iter).line)))
  /\ csv_iter' = Tail(csv_iter)
  /\ UNCHANGED <<input, content, column_map, waypoints, tasks, task>>

\* parse_tasks: the outer loop ends, Ok(tasks)
TasksEnd ==
  /\ pc = "tasks"
  /\ csv_iter = <<>>
  /\ Finish(Success)
  /\ UNCHANGED <<input, content, csv_iter, column_map, waypoints, tasks, task>>

\* parse_tasks, outer loop: `let record = result?;`
TasksCsvError ==
  /\ pc = "tasks"
  /\ csv_iter # <<>>
  /\ ~ Head(csv_iter).ok
  /\ csv_iter' = Tail(csv_iter)
  /\ Finish(CsvFailure)
  /\ UNCHANGED <<input, content, column_map, waypoints, tasks, task>>

\* parse_tasks, outer loop: a marker line outside a task, `continue`
TasksSkipMarker ==
  /\ pc = "tasks"
  /\ csv_iter # <<>>
  /\ Head(csv_iter).ok
  /\ IsMarkerLine(Head(csv_iter))
  /\ csv_iter' = Tail(csv_iter)
  /\ UNCHANGED <<input, content, pc, column_map, waypoints, tasks, task, result>>

\* parse_tasks, outer loop: any other record opens a task
TasksHeader ==
  /\ pc = "tasks"
  /\ csv_iter # <<>>
  /\ Head(csv_iter).ok
  /\ ~ IsMarkerLine(Head(csv_iter))
  /\ task' = parse_task_line(Head(csv_iter).fields).val
  /\ csv_iter' = Tail(csv_iter)
  /\ pc' = "attach"
  /\ UNCHANGED <<input, content, column_map, waypoints, tasks, result>>

\* look-ahead loop: peek() is None; the task is pushed
AttachEnd ==
  /\ pc = "attach"
  /\ csv_iter = <<>>
  /\ tasks' = Append(tasks, task)
  /\ task' = NoTask
  /\ pc' = "tasks"
  /\ UNCHANGED <<input, content, csv_iter, column_map, waypoints, result>>

\* look-ahead loop: the peeked item is an Err: `break 'outer`, which leaves
\* both loops without pushing the current task, and parse_tasks returns
\* Ok(tasks)
AttachCsvError ==
  /\ pc = "attach"
  /\ csv_iter # <<>>
  /\ ~ Head(csv_iter).ok
  /\ task' = NoTask
  /\ Finish(Success)
  /\ UNCHANGED <<input, content, csv_iter, column_map, waypoints, tasks>>

\* the if / else-if chain over the prefixes of the peeked record
AttachmentKind(record) ==
  IF IsOptionsLine(record) THEN "Options"
  ELSE IF IsObsZoneLine(record) THEN "ObsZone"
  ELSE IF IsPointLine(record) THEN "Point"
  ELSE IF IsStartsLine(record) THEN "STARTS"
  ELSE "none"

\* look-ahead loop, the `Options` arm: the line is parsed, attached and
\* consumed, or its parse error ends the parse
AttachOptions ==
  /\ pc = "attach"
  /\ csv_iter # <<>>
  /\ Head(csv_iter).ok
  /\ AttachmentKind(Head(csv_iter)) = "Options"
  /\ \E parsed \in {parse_options_line(Head(csv_iter).fields)} :
       IF parsed.ok
       THEN /\ task' = set_options(task, parsed.val)
            /\ csv_iter' = Tail(csv_iter)
            /\ UNCHANGED <<pc, result>>
       ELSE /\ Finish(Failure(parsed.err, None))
            /\ UNCHANGED <<task, csv_iter>>
  /\ UNCHANGED <<input, content, column_map, waypoints, tasks>>

\* look-ahead loop, the `ObsZone=` arm: the line is parsed, attached and
\* consumed, or its parse error ends the parse
AttachObsZone ==
  /\ pc = "attach"
  /\ csv_iter # <<>>
  /\ Head(csv_iter).ok
  /\ AttachmentKind(Head(csv_iter)) = "ObsZone"
  /\ \E parsed \in {parse_obszone_line(Head(csv_iter).fields)} :
       IF parsed.ok
       THEN /\ task' = push_observation_zone(task, parsed.val)
            /\ csv_iter' = Tail(csv_iter)
            /\ UNCHANGED <<pc, result>>
       ELSE /\ Finish(Failure(parsed.err, None))
            /\ UNCHANGED <<task, csv_iter>>
  /\ UNCHANGED <<input, content, column_map, waypoints, tasks>>

\* look-ahead loop, the `Point=` arm: the line is parsed, attached and
\* consumed, or its parse error ends the parse
AttachPoint ==
  /\ pc = "attach"
  /\ csv_iter # <<>>
  /\ Head(csv_iter).ok
  /\ AttachmentKind(Head(csv_iter)) = "Point"
  /\ \E parsed \in {parse_inline_waypoint_line_with_index(Head(csv_iter).fields,
                                                       column_map.v)} :
       IF parsed.ok
       THEN /\ task' = push_point(task, parsed.val)
            /\ csv_iter' = Tail(csv_iter)
            /\ UNCHANGED <<pc, result>>
       ELSE /\ Finish(Failure(parsed.err, None))
            /\ UNCHANGED <<task, csv_iter>>
  /\ UNCHANGED <<input, content, column_map, waypoints, tasks>>

\* look-ahead loop, the `STARTS=` arm: the line is parsed, attached and
\* consumed, or its parse error ends the parse
AttachStarts ==
  /\ pc = "attach"
  /\ csv_iter # <<>>
  /\ Head(csv_iter).ok
  /\ AttachmentKind(Head(csv_iter)) = "STARTS"
  /\ \E parsed \in {parse_starts_line(Head(csv_iter).fields)} :
       IF parsed.ok
       THEN /\ task' = set_multiple_starts(task, parsed.val)
            /\ csv_iter' = Tail(csv_iter)
            /\ UNCHANGED <<pc, result>>
       ELSE /\ Finish(Failure(parsed.err, None))
            /\ UNCHANGED <<task, csv_iter>>
  /\ UNCHANGED <<input, content, column_map, waypoints, tasks>>

\* a `break` that leaves the loops without `tasks.push(task)`
AttachBreakDropsTask ==
  /\ pc = "attach"
  /\ csv_iter # <<>>
  /\ Head(csv_iter).ok
  /\ ~ IsMarkerLine(Head(csv_iter))
  /\ task' = NoTask
  /\ pc' = "tasks"
  /\ UNCHANGED <<input, content, csv_iter, column_map, waypoints, tasks, result>>

\* look-ahead loop: the peeked record is no marker line: `break`, the task is
\* pushed and the record is left for the outer loop
AttachBreak ==
  /\ pc = "attach"
  /\ csv_iter # <<>>
  /\ Head(csv_iter).ok
  /\ ~ IsMarkerLine(Head(csv_iter))
  /\ tasks' = Append(tasks, task)
  /\ task' = NoTask
  /\ pc' = "tasks"
  /\ UNCHANGED <<input, content, csv_iter, column_map, waypoints, result>>

(***************************************************************************)
(* The inputs of a run.                                                    *)
(*   "cup"   a CupFile value, written by the writer and read back          *)
(*   "table" a waypoint table: a header (the canonical columns rotated,    *)
(*           optionally reversed, in one of three letter cases, optionally *)
(*           without one column) and rows arranged the same way            *)
(*   "tasks" the canonical header, the separator and task-section lines    *)
(*   "text"  a text given as such                                          *)
(***************************************************************************)
MaxWaypoints == 1
MaxTasks == 2
MaxRows == 2
MaxLines == 3
MaxAttachments == 3

Coord(degrees, minutes) == degrees * UnitsPerDegree + minutes

Waypoint1 ==
  [name |-> <<"L", "e", "s", "c", "e">>, code |-> <<"L", "J">>, country |-> <<"S", "I">>,
   latitude |-> Coord(46, 213790), longitude |-> Coord(14, 104670),
   elevation |-> Quantity("Meters", Dec(504, 0)), style |-> 5,
   runway_direction |-> Some(144),
   runway_length |-> Some(Quantity("Meters", Dec(1130, 0))),
   runway_width |-> Some(Quantity("NauticalMiles", Dec(15, 1))),
   frequency |-> <<"1", "2", "3", ".", "5">>, description |-> <<"H", "o", "m", "e", COMMA, SP, QUOTE, "f", "i", "e", "l", "d", QUOTE>>,
   userdata |-> <<"u">>, pictures |-> << <<"a", ".", "j", "p", "g">>, <<"b", ".", "j", "p", "g">> >>]

Waypoint2 ==
  [name |-> <<"T", "P">>, code |-> <<>>, country |-> <<>>,
   latitude |-> 0 - Coord(51, 478094), longitude |-> 0 - Coord(4, 50030),
   elevation |-> Quantity("Feet", Dec(5255, 1)), style |-> StyleUnknown,
   runway_direction |-> None, runway_length |-> None, runway_width |-> None,
   frequency |-> <<>>, description |-> <<>>, userdata |-> <<>>, pictures |-> <<>>]

\* 51 degrees 59.9996 minutes: the minutes round up to 60.000
Waypoint3 ==
  [Waypoint2 EXCEPT !.name = <<"U", "p">>, !.latitude = Coord(51, 599996),
                    !.longitude = Coord(180, 0)]

WaypointValues == {Waypoint1, Waypoint2, Waypoint3}

Options1 ==
  [no_start |-> Some(<<"1", "2", ":", "0", "0", ":", "0", "0">>), task_time |-> Some(<<"0", "3", ":", "0", "0">>),
   wp_dis |-> Some(TRUE), near_dis |-> Some(Quantity("Kilometers", Dec(5, 1))),
   near_alt |-> Some(Quantity("Meters", Dec(300, 0))), min_dis |-> Some(FALSE),
   random_order |-> Some(TRUE), max_pts |-> Some(1000), before_pts |-> Some(3),
   after_pts |-> Some(2), bonus |-> Some(Dec(1005, 1))]

Zone1 ==
  [index |-> 0, style |-> 2, r1 |-> Some(Quantity("Meters", Dec(400, 0))),
   a1 |-> Some(Dec(180, 0)), r2 |-> None, a2 |-> None, a12 |-> None,
   line |-> Some(TRUE)]

Zone2 ==
  [index |-> 1, style |-> 0, r1 |-> Some(Quantity("NauticalMiles", Dec(3, 0))),
   a1 |-> Some(Dec(45, 0)), r2 |-> Some(Quantity("Meters", Dec(0, 0))),
   a2 |-> Some(Dec(905, 1)), a12 |-> Some(Dec(0, 0)), line |-> Some(FALSE)]

Task1 == NewTask(Some(<<"T", "a", "s", "k">>), << <<"A">>, <<"B">>, <<"A">> >>)
Task2 ==
  [NewTask(None, << <<"A">> >>) EXCEPT !.options = Some(Options1),
                                     !.observation_zones = <<Zone1, Zone2>>]
Task3 ==
  [NewTask(Some(<<"I", "n", COMMA, SP, "l", "i", "n", "e">>), <<>>) EXCEPT
     !.options = Some([EmptyOptions EXCEPT !.no_start = Some(<<"9", COMMA, "3", "0">>),
                                           !.max_pts = Some(7)]),
     !.observation_zones = <<Zone2, Zone1>>,
     !.points = << <<1, Waypoint2>>, <<1, Waypoint1>> >>,
     !.multiple_starts = << <<"X">> >>]
Task4 == [Task1 EXCEPT !.multiple_starts = << <<"S", "1">>, <<"S", "2">> >>]

TaskValues == {Task1, Task2, Task3, Task4}

\* the sequences over S of length at most n
SeqsUpTo(S, n) == UNION {[1..k -> S] : k \in 0..n}

CupInputs ==
  {[kind |-> "cup", cup |-> [waypoints |-> ws, tasks |-> ts]] :
     ws \in SeqsUpTo(WaypointValues, MaxWaypoints), ts \in SeqsUpTo(TaskValues, MaxTasks)}

\* rows of a table, as the 14 field values in canonical order
Row1 ==
  << <<"L", "e", "s", "c", "e">>, <<"L", "J">>, <<"S", "I">>, <<"4", "6", "2", "1", ".", "3", "7", "9", "N">>, <<"0", "1", "4", "1", "0", ".", "4", "6", "7", "E">>, <<"5", "0", "4", ".", "0", "m">>, <<"5">>,
     <<"1", "4", "4">>, <<"1", "1", "3", "0", ".", "0", "m">>, <<"1", ".", "5", "n", "m">>, <<"1", "2", "3", ".", "5", "0", "0">>, <<"H", "o", "m", "e", COMMA, SP, "f", "i", "e", "l", "d">>, <<"u">>,
     <<"a", ".", "j", "p", "g", ";", SP, "b", ".", "j", "p", "g">> >>
Row2 ==
  << <<"C", "r", "o", "s", "s">>, <<>>, <<>>, <<"5", "1", "4", "7", ".", "8", "0", "9", "S">>, <<"0", "0", "4", "0", "5", ".", "0", "0", "3", "W">>, <<"5", "2", "5", "f", "t">>, <<"1">>,
     <<>>, <<>>, <<>>, <<>>, <<>>, <<>>, <<>> >>
\* out-of-range latitude
Row3 == [Row2 EXCEPT ![1] = <<"L", "a", "t">>, ![4] = <<"9", "1", "0", "0", ".", "0", "0", "0", "N">>]
\* empty name
Row4 == [Row2 EXCEPT ![1] = <<>>]
\* a description that ends with a space
Row5 == [Row2 EXCEPT ![1] = <<"T", "r", "a", "i", "l">>, ![12] = <<"H", "o", "m", "e", SP>>]

RowValues == <<Row1, Row2, Row3, Row4, Row5>>

NumColumns == Len(CanonicalHeader)

\* the canonical position shown at position i of a header rotated by rot
\* and then reversed when rev
PermAt(rot, rev, i) ==
  LET j == IF rev THEN NumColumns + 1 - i ELSE i
  IN ((j - 1 + rot) % NumColumns) + 1

\* the canonical positions in the order of the header, without column drop
ColumnOrder(rot, rev, drop) ==
  SelectSeq([i \in 1..NumColumns |-> PermAt(rot, rev, i)], LAMBDA c : c # drop)

Capitalize(s) == <<UpperChar(s[1])>> \o Tail(s)
HeaderCase(case, s) ==
  IF case = 0 THEN s ELSE IF case = 1 THEN Capitalize(s) ELSE ToUpper(s)

Arrange(values, order) == [i \in 1..Len(order) |-> values[order[i]]]

TableText(in) ==
  LET order == ColumnOrder(in.rot, in.rev, in.drop)
      header == [i \in 1..Len(order) |-> HeaderCase(in.case, CanonicalHeader[order[i]])]
  IN CsvWriteRecord(header)
       \o Concat([k \in 1..Len(in.rows) |->
                    CsvWriteRecord(Arrange(RowValues[in.rows[k]], order))])

\* every rotation in both directions, two of them in the two other letter
\* cases, and every single missing column in the canonical order and its reverse
TableLayouts ==
  {[rot |-> rot, rev |-> rev, case |-> 0, drop |-> 0] :
     rot \in 0..(NumColumns - 1), rev \in BOOLEAN}
  \cup {[rot |-> rot, rev |-> rev, case |-> case, drop |-> 0] :
           rot \in {0, 5}, rev \in BOOLEAN, case \in 1..2}
  \cup {[rot |-> 0, rev |-> rev, case |-> 0, drop |-> drop] :
           rev \in BOOLEAN, drop \in 1..NumColumns}

TableInputs ==
  {[kind |-> "table", rot |-> l.rot, rev |-> l.rev, case |-> l.case,
    drop |-> l.drop, rows |-> rows] :
     l \in TableLayouts, rows \in SeqsUpTo(1..Len(RowValues), MaxRows)}

\* the lines of a task section, as they stand in the file
LineValues ==
  << <<"T", "a", "s", "k", COMMA, "A", COMMA, "B">>,
     <<COMMA, "A", COMMA, COMMA, "B">>,
     <<"O", "p", "t", "i", "o", "n", "s", COMMA, "M", "a", "x", "P", "t", "s", "=", "5", COMMA, "N", "o", "S", "t", "a", "r", "t", "=", "1", "2", ":", "0", "0">>,
     <<"O", "p", "t", "i", "o", "n", "s", COMMA, "T", "a", "s", "k", "T", "i", "m", "e", "=", "0", "3", ":", "0", "0", COMMA, "M", "a", "x", "P", "t", "s", "=", "x">>,
     <<"O", "b", "s", "Z", "o", "n", "e", "=", "0", COMMA, "S", "t", "y", "l", "e", "=", "2", COMMA, "R", "1", "=", "4", "0", "0", "m", COMMA, "L", "i", "n", "e", "=", "1">>,
     <<"O", "b", "s", "Z", "o", "n", "e", "=", "1", COMMA, "S", "t", "y", "l", "e", "=", "0", COMMA, "A", "1", "=", "4", "5">>,
     <<"P", "o", "i", "n", "t", "=", "1", COMMA, "T", "P", COMMA, COMMA, COMMA, "5", "1", "4", "7", ".", "8", "0", "9", "N", COMMA, "0", "0", "4", "0", "5", ".", "0", "0", "3", "W", COMMA, "5", "2", "5", "f", "t", COMMA, "1">>,
     <<"S", "T", "A", "R", "T", "S", "=", "S", "1", COMMA, SP, "S", "2">>,
     <<"O", "b", "s", "Z", "o", "n", "e", "=", "x", COMMA, "S", "t", "y", "l", "e", "=", "9">>,
     <<>>,
     <<SP, SP>>,
     <<"O", "p", "t", "i", "o", "n", "s", COMMA, BadByte>>,
     <<"P", "o", "i", "n", "t", "=", "2", COMMA, "B", COMMA, COMMA, COMMA, "4", "6", "2", "1", ".", "3", "7", "9", "N", COMMA, "0", "1", "4", "1", "0", ".", "4", "6", "7", "E", COMMA, "5", "0", "4", "m", COMMA, "5">>,
     TASK_SEPARATOR,
     <<"-", "-", "-", "-", "-", "R", "e", "l", "a", "t", "e", "d", SP, COMMA, "T", "a", "s", "k", "s", "-", "-", "-", "-", "-">>,
     <<"C", "r", "o", "s", "s", COMMA, COMMA, COMMA, "5", "1", "4", "7", ".", "8", "0", "9", "S", COMMA, "0", "0", "4", "0", "5", ".", "0", "0", "3", "W", COMMA, "5", "2", "5", "f", "t", COMMA, "1">> >>

LineHeader == {1, 2}
LineOptions == {3, 4}
LineObsZone == {5, 6}
LinePoint == {7, 13}
LineStarts == {8}
LineInvalid == {9}
LineEmpty == {10}
LineSpaces == {11}
LineUndecodable == {12}
LineSeparator == {14}
\* two fields that read `-----Related Tasks-----` when put end to end
LineSplitSeparator == {15}
LineRow == {16}
\* the lines the task sections are made of
TaskSectionLines == 1..13
\* the lines the files with both sections are made of
FileLines == LineRow \cup LineSeparator \cup LineSplitSeparator \cup {1, 5}

TasksHeader7 == Join(MandatoryColumns, <<COMMA>>)

TasksText(in) ==
  TasksHeader7 \o <<NL>> \o TASK_SEPARATOR \o <<NL>>
    \o Concat([k \in 1..Len(in.lines) |-> LineValues[in.lines[k]] \o <<NL>>])

\* the lines an open task can take in
LineAttachment == LineOptions \cup LineObsZone \cup LinePoint \cup LineStarts

\* any lines at all, and one header followed by attachments only
TasksInputs ==
  {[kind |-> "tasks", lines |-> lines] :
     lines \in SeqsUpTo(TaskSectionLines, MaxLines)}
  \cup {[kind |-> "tasks", lines |-> <<1>> \o lines] :
           lines \in SeqsUpTo(LineAttachment, MaxAttachments)}

\* the header of the mandatory columns, then lines of both sections
FileText(in) ==
  TasksHeader7 \o <<NL>>
    \o Concat([k \in 1..Len(in.lines) |-> LineValues[in.lines[k]] \o <<NL>>])

FileInputs ==
  {[kind |-> "file", lines |-> lines] : lines \in SeqsUpTo(FileLines, MaxLines)}

\* a table in some column order, with or without one row, and a task with
\* one Point line that holds the fields of a row in the order of the table
InlineHeader(in) ==
  LET order == ColumnOrder(in.rot, in.rev, in.drop)
  IN [i \in 1..Len(order) |-> CanonicalHeader[order[i]]]
InlineFields(in) ==
  Arrange(RowValues[in.row], ColumnOrder(in.rot, in.rev, in.drop))
InlineText(in) ==
  CsvWriteRecord(InlineHeader(in))
    \o (IF in.table THEN CsvWriteRecord(InlineFields(in)) ELSE <<>>)
    \o TASK_SEPARATOR \o <<NL>>
    \o LineValues[1] \o <<NL>>
    \o CsvWriteRecord(<<PrefixPoint \o NatToDigits(in.index)>> \o InlineFields(in))
    \o LineValues[2] \o <<NL>>

PointIndexValues == {0, 3}

InlineLayouts ==
  {[rot |-> rot, rev |-> rev, drop |-> 0] :
     rot \in 0..(NumColumns - 1), rev \in BOOLEAN}
  \cup {[rot |-> 0, rev |-> FALSE, drop |-> drop] : drop \in {8, 12}}

InlineInputs ==
  {[kind |-> "inline", rot |-> l.rot, rev |-> l.rev, drop |-> l.drop,
    row |-> row, index |-> index, table |-> table] :
     l \in InlineLayouts, row \in 1..Len(RowValues),
     index \in PointIndexValues, table \in BOOLEAN}

\* a table with the full row Row1 alone, one of its fields emptied (blank,
\* a canonical column, 0 for none) and the row cut after its first fields
RecordFields(in) ==
  LET order == ColumnOrder(in.rot, in.rev, in.drop)
      row == [RowValues[1] EXCEPT ![IF in.blank = 0 THEN 1 ELSE in.blank] =
                IF in.blank = 0 THEN @ ELSE <<>>]
  IN Take(Arrange(row, order), in.keep)
RecordText(in) ==
  LET order == ColumnOrder(in.rot, in.rev, in.drop)
  IN CsvWriteRecord([i \in 1..Len(order) |-> CanonicalHeader[order[i]]])
       \o CsvWriteRecord(RecordFields(in))

RecordLayouts ==
  {[rot |-> 0, rev |-> FALSE, drop |-> 0], [rot |-> 5, rev |-> TRUE, drop |-> 0],
   [rot |-> 0, rev |-> FALSE, drop |-> 9]}

RecordInputs ==
  UNION {{[kind |-> "record", rot |-> l.rot, rev |-> l.rev, drop |-> l.drop,
           blank |-> blank, keep |-> keep] :
            blank \in 0..NumColumns,
            keep \in 1..Len(ColumnOrder(l.rot, l.rev, l.drop))} :
          l \in RecordLayouts}

(***************************************************************************)
(* A task header followed by one attachment line, put together from a      *)
(* first field and sub-fields.                                             *)
(***************************************************************************)
OptionsSubFields ==
  << <<"M", "a", "x", "P", "t", "s", "=", "x">>, <<"M", "a", "x", "P", "t", "s", "=", "7">>, <<"B", "e", "f", "o", "r", "e", "P", "t", "s", "=", "-", "1">>, <<"A", "f", "t", "e", "r", "P", "t", "s", "=", "2", ".", "5">>,
     <<"B", "o", "n", "u", "s", "=", "a", "b", "c">>, <<"B", "o", "n", "u", "s", "=", "1", ".", "5">>, <<"F", "o", "o", "=", "1">>, <<"b", "a", "r", "e">>, <<"N", "o", "S", "t", "a", "r", "t", "=", "1", "2", ":", "0", "0">>,
     <<"N", "e", "a", "r", "D", "i", "s", "=", "5", "k", "m">>, <<"N", "e", "a", "r", "A", "l", "t", "=", "3", "x">> >>

ObsZoneFirstFields ==
  << <<"O", "b", "s", "Z", "o", "n", "e", "=", "0">>, <<"O", "b", "s", "Z", "o", "n", "e", "=", "x">>, <<"O", "b", "s", "Z", "o", "n", "e", "=">>, <<"O", "b", "s", "Z", "o", "n", "e", "=", "-", "1">>, <<"O", "b", "s", "Z", "o", "n", "e", "=", "1", ".", "5">> >>

ObsZoneStyleFields ==
  << <<<<"S", "t", "y", "l", "e", "=", "2">>>>, <<<<"S", "t", "y", "l", "e", "=", "4">>>>, <<<<"S", "t", "y", "l", "e", "=", "5">>>>, <<<<"S", "t", "y", "l", "e", "=", "x">>>>, <<<<"S", "t", "y", "l", "e", "=">>>>, <<>> >>

ObsZoneSubFields ==
  << <<"A", "1", "=", "x">>, <<"A", "1", "=", "1", "8", "0">>, <<"A", "2", "=">>, <<"A", "2", "=", "9", "0", ".", "5">>, <<"A", "1", "2", "=", "4", "-", "5">>, <<"R", "1", "=", "4", "0", "0", "m">>,
     <<"R", "1", "=", "4", "x">>, <<"R", "2", "=", "5", "q">>, <<"L", "i", "n", "e", "=", "1">>, <<"F", "o", "o">> >>

PointFirstFields ==
  << <<"P", "o", "i", "n", "t", "=", "1">>, <<"P", "o", "i", "n", "t", "=", "x">>, <<"P", "o", "i", "n", "t", "=">>, <<"P", "o", "i", "n", "t", "=", "-", "1">>, <<"P", "o", "i", "n", "t", "=", "0", "0", "7">>,
     <<"P", "o", "i", "n", "t", "=", "2", "1", "4", "7", "4", "8", "3", "6", "4", "7">>, <<"P", "o", "i", "n", "t", "=", "4", "2", "9", "4", "9", "6", "7", "2", "9", "6">>, <<"P", "o", "i", "n", "t", "=", "4", "2", "9", "4", "9", "6", "7", "2", "9", "7">>,
     <<"P", "o", "i", "n", "t", "=", "1", "8", "4", "4", "6", "7", "4", "4", "0", "7", "3", "7", "0", "9", "5", "5", "1", "6", "1", "6">> >>

\* a good row, a row with a latitude out of range, a row with an empty name
PointRows == {2, 3, 4}

\* task header lines: the first field carries no marker prefix, the fields
\* put end to end may
HeaderFields ==
  << << <<>>, <<"O", "p", "t", "i", "o", "n", "s", SP, "R", "i", "d", "g", "e">>, <<"B">> >>,
     << <<"S", "T", "A", "R", "T", "S">>, <<"=", "S", "1">> >>,
     << <<"O", "p", "t">>, <<"i", "o", "n">>, <<"B">> >> >>

MaxSubFields == 2

SubFieldChoices(pool) ==
  UNION {[1..n -> {pool[k] : k \in 1..Len(pool)}] : n \in 0..MaxSubFields}

AttachInputs ==
  {[kind |-> "attach", first |-> PrefixOptions, parts |-> parts] :
     parts \in SubFieldChoices(OptionsSubFields)}
  \cup
  {[kind |-> "attach", first |-> ObsZoneFirstFields[i], parts |-> ObsZoneStyleFields[j]] :
     i \in 1..Len(ObsZoneFirstFields), j \in 1..Len(ObsZoneStyleFields)}
  \cup
  {[kind |-> "attach", first |-> ObsZoneFirstFields[1],
    parts |-> ObsZoneStyleFields[1] \o parts] :
     parts \in SubFieldChoices(ObsZoneSubFields)}
  \cup
  {[kind |-> "attach", first |-> Head(HeaderFields[i]), parts |-> Tail(HeaderFields[i])] :
     i \in 1..Len(HeaderFields)}
  \cup
  {[kind |-> "attach", first |-> PointFirstFields[i],
    parts |-> Take(RowValues[row], Len(MandatoryColumns))] :
     i \in 1..Len(PointFirstFields), row \in PointRows}

AttachLine(in) == Join(<<in.first>> \o in.parts, <<COMMA>>)

AttachText(in) ==
  TasksHeader7 \o <<NL>> \o TASK_SEPARATOR \o <<NL>>
    \o LineValues[1] \o <<NL>> \o AttachLine(in) \o <<NL>>

\* the full row Row1 under the canonical header, one of its runway fields
\* (a canonical column and a text) replaced
RunwayFieldValues ==
  << <<8, <<"a", "b", "c">>>>, <<8, <<"-", "5">>>>, <<8, <<"0", "9", "0">>>>,
     <<9, <<"i", "n", "v", "a", "l", "i", "d">>>>, <<9, <<"1", "1", "3", "0", "k", "m">>>>, <<9, <<"5", "0", "0", "m">>>>,
     <<10, <<"x">>>>, <<10, <<"3", "0", SP, "m">>>>, <<10, <<"2", "5", "m">>>> >>

RunwayInputs == {[kind |-> "runway", field |-> i] : i \in 1..Len(RunwayFieldValues)}

RunwayRow(in) ==
  [RowValues[1] EXCEPT ![RunwayFieldValues[in.field][1]] = RunwayFieldValues[in.field][2]]

RunwayText(in) == CsvWriteRecord(CanonicalHeader) \o CsvWriteRecord(RunwayRow(in))

TextValues ==
  << <<>>,
     <<SP, NL, TAB, NL>>,
     <<BadByte, COMMA, "n", "a", "m", "e", NL>>,
     <<"n", "a", "m", "e", COMMA, "c", "o", "d", "e", COMMA, "c", "o", "u", "n", "t", "r", "y", COMMA, "l", "a", "t", COMMA, "l", "o", "n", COMMA, "e", "l", "e", "v", COMMA, "s", "t", "y", "l", "e", NL, "A", COMMA, BadByte, NL>>,
     <<SP>>,
     <<CR, NL, CR, NL>>,
     <<SP, NL>> \o TasksHeader7 \o <<NL, NL, SP>>,
     TasksHeader7 >>

TextInputs == {[kind |-> "text", text |-> k] : k \in 1..Len(TextValues)}

Inputs ==
  CupInputs \cup TableInputs \cup TasksInputs \cup TextInputs \cup FileInputs
    \cup InlineInputs \cup RecordInputs \cup AttachInputs \cup RunwayInputs

ContentOf(in) ==
  CASE in.kind = "cup" -> <<>>
    [] in.kind = "table" -> TableText(in)
    [] in.kind = "tasks" -> TasksText(in)
    [] in.kind = "file" -> FileText(in)
    [] in.kind = "inline" -> InlineText(in)
    [] in.kind = "record" -> RecordText(in)
    [] in.kind = "attach" -> AttachText(in)
    [] in.kind = "runway" -> RunwayText(in)
    [] in.kind = "text" -> TextValues[in.text]

Init ==
  /\ input \in Inputs
  /\ content = ContentOf(input)
  /\ pc = IF input.kind = "cup" THEN "write" ELSE "parse"
  /\ csv_iter = <<>>
  /\ column_map = None
  /\ waypoints = <<>>
  /\ tasks = <<>>
  /\ task = NoTask
  /\ result = Running

Next ==
  \/ Write
  \/ ParseEmpty
  \/ ParseHeaderCsvError
  \/ ParseHeaderMissingColumn
  \/ ParseHeader
  \/ WaypointsEnd
  \/ WaypointsCsvError
  \/ WaypointsSeparator
  \/ WaypointRow
  \/ WaypointRowError
  \/ TasksEnd
  \/ TasksCsvError
  \/ TasksSkipMarker
  \/ TasksHeader
  \/ AttachEnd
  \/ AttachCsvError
  \/ AttachOptions
  \/ AttachObsZone
  \/ AttachPoint
  \/ AttachStarts
  \/ AttachBreak

Spec == Init /\ [][Next]_vars

(***************************************************************************)
(* What a run was started on, read directly from the parts of the input.   *)
(***************************************************************************)
Done == pc = "done"
TasksInput == input.kind = "tasks"
TableInput == input.kind = "table"
CupInput == input.kind = "cup"

\* the elements of a set of numbers in increasing order
RECURSIVE Ascending(_)
Ascending(S) ==
  IF S = {} THEN <<>>
  ELSE LET least == CHOOSE x \in S : \A y \in S : x <= y
       IN <<least>> \o Ascending(S \ {least})

\* the fields of line k of the catalogue, decoded on its own
LineFields(k) == CsvRecords(LineValues[k])[1].fields

LineBlank == LineEmpty \cup LineSpaces
OfKind(lines, K) == SelectSeq(lines, LAMBDA k : k \in K)
Count(lines, K) == Len(OfKind(lines, K))
HeaderPositions(lines) == {i \in DOMAIN lines : lines[i] \in LineHeader}
\* headers and well-formed attachment lines only
Clean(lines) == \A i \in DOMAIN lines : lines[i] \in LineHeader \cup LineAttachment

\* the last of a sequence of Options (or STARTS) lines, if there is one
LastOptions(ks) ==
  IF ks = <<>> THEN None
  ELSE Some(parse_options_line(LineFields(ks[Len(ks)])).val)
LastStarts(ks) ==
  IF ks = <<>> THEN <<>>
  ELSE parse_starts_line(LineFields(ks[Len(ks)])).val
ZonesOf(ks) == [n \in 1..Len(ks) |-> parse_obszone_line(LineFields(ks[n])).val]
PointsOf(ks, map) ==
  [n \in 1..Len(ks) |->
     LET point == parse_inline_waypoint_line_with_index(LineFields(ks[n]), map).val
     IN <<as_u32(point[1]), point[2]>>]

\* the task that header line h and the attachment lines after it, up to
\* position last, describe
TaskFrom(lines, h, last, map) ==
  LET header == parse_task_line(LineFields(lines[h])).val
      own == SubSeq(lines, h + 1, last)
  IN [description |-> header.description,
      waypoint_names |-> header.waypoint_names,
      options |-> LastOptions(OfKind(own, LineOptions)),
      observation_zones |-> ZonesOf(OfKind(own, LineObsZone)),
      points |-> PointsOf(OfKind(own, LinePoint), map),
      multiple_starts |-> LastStarts(OfKind(own, LineStarts))]

\* one task per header line, each with the lines up to the next header
ExpectedTasks(lines, map) ==
  LET hs == Ascending(HeaderPositions(lines))
  IN [n \in 1..Len(hs) |->
        TaskFrom(lines, hs[n],
                 IF n < Len(hs) THEN hs[n + 1] - 1 ELSE Len(lines), map)]

\* the number of task-section records the iterator has yielded so far, for
\* an input without blank lines
Consumed == Len(input.lines) - Len(csv_iter)

(***************************************************************************)
(* Claims.                                                                 *)
(***************************************************************************)
\* 1e-4 degrees, in the unit of the coordinates
CoordTolerance == UnitsPerDegree \div (10 * 1000)
Within(a, b) == a - b <= CoordTolerance /\ b - a <= CoordTolerance
SameWaypoint(a, b) ==
  /\ [a EXCEPT !.latitude = 0, !.longitude = 0]
       = [b EXCEPT !.latitude = 0, !.longitude = 0]
  /\ Within(a.latitude, b.latitude)
  /\ Within(a.longitude, b.longitude)
SameTask(a, b) ==
  /\ [a EXCEPT !.points = <<>>] = [b EXCEPT !.points = <<>>]
  /\ Len(a.points) = Len(b.points)
  /\ \A k \in 1..Len(a.points) :
       /\ a.points[k][1] = b.points[k][1]
       /\ SameWaypoint(a.points[k][2], b.points[k][2])

\* C1: parsing the text the writer produced for a CupFile succeeds and gives
\* back as many waypoints and tasks, in the same order, every field equal to
\* the original, coordinates within 1e-4 degrees.
C1_RoundTrip ==
  (Done /\ CupInput) =>
    /\ result = Success
    /\ Len(waypoints) = Len(input.cup.waypoints)
    /\ Len(tasks) = Len(input.cup.tasks)
    /\ \A k \in 1..Len(waypoints) : SameWaypoint(waypoints[k], input.cup.waypoints[k])
    /\ \A k \in 1..Len(tasks) : SameTask(tasks[k], input.cup.tasks[k])

\* a header line followed by well-formed attachment lines only
HeaderThenAttachments(lines) ==
  /\ lines # <<>>
  /\ lines[1] \in LineHeader
  /\ \A i \in 2..Len(lines) : lines[i] \in LineAttachment

\* C2: for a task header followed by attachment lines with at most one
\* Options line and at most one STARTS line, the parsed task is determined by
\* the header and, per kind, the sequence of the lines of that kind: its
\* options and multiple_starts are those of the one Options and STARTS line,
\* its observation_zones and points are the ObsZone and Point lines in their
\* own relative order. Any two orders of the lines that agree on these
\* per-kind sequences therefore give the same task.
C2_AttachmentKindOrder ==
  (/\ Done
   /\ TasksInput
   /\ HeaderThenAttachments(input.lines)
   /\ Count(input.lines, LineOptions) <= 1
   /\ Count(input.lines, LineStarts) <= 1) =>
    /\ result = Success
    /\ Len(tasks) = 1
    /\ tasks[1].options = LastOptions(OfKind(input.lines, LineOptions))
    /\ tasks[1].multiple_starts = LastStarts(OfKind(input.lines, LineStarts))
    /\ tasks[1].observation_zones = ZonesOf(OfKind(input.lines, LineObsZone))
    /\ tasks[1].points = PointsOf(OfKind(input.lines, LinePoint), column_map.v)

\* an ObsZone line, the Options line and another ObsZone line were attached
C2_Witness ==
  /\ Done
  /\ TasksInput
  /\ input.lines = <<1, 6, 3, 5>>
  /\ result = Success
  /\ Len(tasks[1].observation_zones) = 2
  /\ tasks[1].observation_zones[1].index = 1
  /\ tasks[1].options # None

\* C3: in a section of header lines and attachment lines that starts with a
\* header, every attachment line is attached to the task of the nearest
\* header line before it and to no other, each header line ends the task
\* before it and opens the next, and the tasks are returned in header order.
C3_NearestPrecedingHeader ==
  (/\ Done
   /\ TasksInput
   /\ Clean(input.lines)
   /\ input.lines # <<>>
   /\ input.lines[1] \in LineHeader) =>
    /\ result = Success
    /\ Len(tasks) = Cardinality(HeaderPositions(input.lines))
    /\ tasks = ExpectedTasks(input.lines, column_map.v)

\* two headers, the first with an ObsZone line, the second without any
C3_Witness ==
  /\ Done
  /\ TasksInput
  /\ input.lines = <<1, 5, 2>>
  /\ Len(tasks) = 2
  /\ Len(tasks[1].observation_zones) = 1
  /\ tasks[2].observation_zones = <<>>
  /\ tasks[2].description = None

\* the marker lines before the first header line
OrphanCount(lines) ==
  IF HeaderPositions(lines) = {} THEN Len(lines)
  ELSE Ascending(HeaderPositions(lines))[1] - 1

\* C4: marker lines that stand before any task header, well-formed as
\* attachments or not, are skipped: the parse succeeds, they create no task,
\* and the tasks are those of the section without them.
C4_OrphanMarkersSkipped ==
  (/\ Done
   /\ TasksInput
   /\ LET orphans == OrphanCount(input.lines)
      IN /\ orphans > 0
         /\ \A i \in 1..orphans : input.lines[i] \in LineAttachment \cup LineInvalid
         /\ Clean(SubSeq(input.lines, orphans + 1, Len(input.lines)))) =>
    /\ result = Success
    /\ tasks = ExpectedTasks(SubSeq(input.lines, OrphanCount(input.lines) + 1,
                                    Len(input.lines)),
                             column_map.v)

\* an ObsZone line without index or style stood before the first header
C4_Witness ==
  /\ Done
  /\ TasksInput
  /\ input.lines = <<9, 1, 5>>
  /\ result = Success
  /\ Len(tasks) = 1
  /\ Len(tasks[1].observation_zones) = 1

\* C5: while the attachments of a task are collected, the task's options are
\* those of the last Options line consumed so far and nothing of an earlier
\* one, and its observation_zones and points are the ObsZone and Point lines
\* consumed so far, in the order consumed: each step only appends to them.
C5_LastOptionsWin ==
  (/\ pc = "attach"
   /\ TasksInput
   /\ Clean(input.lines)) =>
    LET consumed == SubSeq(input.lines, 1, Consumed)
        h == Ascending(HeaderPositions(consumed))[Cardinality(HeaderPositions(consumed))]
        own == SubSeq(consumed, h + 1, Consumed)
    IN /\ task.options = LastOptions(OfKind(own, LineOptions))
       /\ task.observation_zones = ZonesOf(OfKind(own, LineObsZone))
       /\ task.points = PointsOf(OfKind(own, LinePoint), column_map.v)

\* two Options lines were consumed: TaskTime of the second is there, MaxPts
\* and NoStart of the first are not
C5_Witness ==
  /\ pc = "attach"
  /\ TasksInput
  /\ input.lines = <<1, 3, 4>>
  /\ csv_iter = <<>>
  /\ task.options # None
  /\ task.options.v.task_time # None
  /\ task.options.v.max_pts = None
  /\ task.options.v.no_start = None

\* C6: blank lines of the task section, empty or of whitespace only, are
\* skipped wherever they stand: the parse succeeds and the tasks are those
\* of the section without its blank lines.
C6_BlankLinesSkipped ==
  (/\ Done
   /\ TasksInput
   /\ \A i \in DOMAIN input.lines :
        input.lines[i] \in LineHeader \cup LineAttachment \cup LineBlank) =>
    /\ result = Success
    /\ tasks = ExpectedTasks(OfKind(input.lines, LineHeader \cup LineAttachment),
                             column_map.v)

CanonicalColumnMap ==
  [name |-> 0, code |-> 1, country |-> 2, lat |-> 3, lon |-> 4, elev |-> 5,
   style |-> 6, rwdir |-> Some(7), rwlen |-> Some(8), rwwidth |-> Some(9),
   freq |-> Some(10), desc |-> Some(11), userdata |-> Some(12),
   pics |-> Some(13)]
RowWaypoint(r) == parse_waypoint(CanonicalColumnMap, RowValues[r])
GoodRows(rows) == SelectSeq(rows, LAMBDA r : RowWaypoint(r).ok)

\* C8: in a table with a valid header a row that fails to parse is dropped,
\* every other row gives a Waypoint in source order, and the parse succeeds.
C8_RowSkipNotFail ==
  (Done /\ TableInput /\ input.drop = 0) =>
    /\ result = Success
    /\ waypoints = [k \in 1..Len(GoodRows(input.rows)) |->
                      RowWaypoint(GoodRows(input.rows)[k]).val]

\* the names of the ColumnMap fields, in the canonical column order
ColumnMapFields ==
  <<"name", "code", "country", "lat", "lon", "elev", "style", "rwdir",
    "rwlen", "rwwidth", "freq", "desc", "userdata", "pics">>
IsMandatory(c) == c \in 1..Len(MandatoryColumns)
IsOptional(c) == c \in (Len(MandatoryColumns) + 1)..NumColumns
\* the 0-based place of canonical column c in the header of a table input
HeaderPosition(in, c) ==
  LET order == ColumnOrder(in.rot, in.rev, in.drop)
  IN (CHOOSE i \in 1..Len(order) : order[i] = c) - 1

FirstBadRow(rows) ==
  IF \A k \in DOMAIN rows : RowWaypoint(rows[k]).ok THEN 0
  ELSE CHOOSE k \in DOMAIN rows :
         /\ ~ RowWaypoint(rows[k]).ok
         /\ \A j \in 1..(k - 1) : RowWaypoint(rows[j]).ok

\* C10: a table whose header columns are permuted, or written in another
\* letter case, with the fields of each row permuted the same way, parses to
\* what the rows give under the canonical column order: the same waypoints,
\* and the same outcome.
C10_ColumnRemapping ==
  (Done /\ TableInput /\ input.drop = 0) =>
    LET bad == FirstBadRow(input.rows)
        good == IF bad = 0 THEN input.rows ELSE SubSeq(input.rows, 1, bad - 1)
    IN /\ waypoints = [k \in 1..Len(good) |-> RowWaypoint(good[k]).val]
       /\ result = IF bad = 0 THEN Success
                   ELSE Failure(RowWaypoint(input.rows[bad]).err, Some(bad + 1))

\* a text of whitespace characters only (the empty text included)
WhitespaceOnly(text) == \A i \in DOMAIN text : text[i] \in Whitespace
TextInput == input.kind = "text"
\* the header row of the mandatory columns, alone or inside whitespace
TextHeaderOnly == {7, 8}

\* C11: a parse of an empty or whitespace-only text ends with the error
\* "Empty file", never with success, and it reads no header, waypoint or
\* task; a parse of a text that holds a valid header row and nothing else
\* ends with success, no waypoints and no tasks.
C11_EmptyFile ==
  /\ (Done /\ ~ CupInput /\ WhitespaceOnly(ContentOf(input))) =>
       /\ result = Failure(E("Empty file", <<>>), None)
       /\ column_map = None
       /\ waypoints = <<>>
       /\ tasks = <<>>
  /\ (Done /\ TableInput /\ input.rows = <<>> /\ ~ IsMandatory(input.drop)) =>
       /\ result = Success
       /\ waypoints = <<>>
       /\ tasks = <<>>
  /\ (Done /\ TextInput /\ input.text \in TextHeaderOnly) =>
       /\ result = Success
       /\ waypoints = <<>>
       /\ tasks = <<>>

\* a text of spaces, tabs and line ends has failed as an empty file
C11_Witness ==
  /\ Done
  /\ TextInput
  /\ ContentOf(input) = <<SP, NL, TAB, NL>>
  /\ result = Failure(E("Empty file", <<>>), None)

FileInput == input.kind = "file"
\* the column map of the header of the mandatory columns
FileColumnMap == build_column_map(MandatoryColumns).val
\* the Waypoint that the waypoint codec makes of line k of the catalogue
FileRow(k) == parse_waypoint(FileColumnMap, LineFields(k))
\* the tasks that the task grammar makes of lines: one per line that is not
\* an attachment, each with the attachment lines up to the next such line
SectionTasks(lines) ==
  LET hs == Ascending({i \in DOMAIN lines : lines[i] \notin LineAttachment})
  IN [n \in 1..Len(hs) |->
        TaskFrom(lines, hs[n],
                 IF n < Len(hs) THEN hs[n + 1] - 1 ELSE Len(lines),
                 FileColumnMap)]
\* the place of the first separator line, past the end when there is none
FirstSeparator(lines) ==
  LET seps == {i \in DOMAIN lines : lines[i] \in LineSeparator}
  IN IF seps = {} THEN Len(lines) + 1
     ELSE CHOOSE i \in seps : \A j \in seps : i <= j

\* C12: every line before the first line `-----Related Tasks-----` is read by
\* the waypoint codec and by nothing else, the separator line gives neither a
\* waypoint nor a task, every line after it is read by the task grammar and
\* by nothing else, and a file without a separator line has no tasks.
C12_SectionSplit ==
  (Done /\ FileInput) =>
    LET lines == input.lines
        s == FirstSeparator(lines)
        before == SubSeq(lines, 1, s - 1)
        after == SubSeq(lines, s + 1, Len(lines))
        bad == {i \in DOMAIN before : ~ FileRow(before[i]).ok}
        b == CHOOSE i \in bad : \A j \in bad : i <= j
    IN /\ s > Len(lines) => tasks = <<>>
       /\ bad = {} =>
            /\ result = Success
            /\ waypoints = [i \in DOMAIN before |-> FileRow(before[i]).val]
            /\ tasks = SectionTasks(after)
       /\ bad # {} =>
            /\ result = Failure(FileRow(before[b]).err, Some(b + 1))
            /\ waypoints = [i \in 1..(b - 1) |-> FileRow(before[i]).val]
            /\ tasks = <<>>

InlineInput == input.kind = "inline"
\* what the table-row codec makes of the fields of the Point line, under
\* the column map of the table's header
InlineWaypoint(in) ==
  parse_waypoint(build_column_map(InlineHeader(in)).val, InlineFields(in))

\* C13: whatever the column order of the table's header, the waypoint of a
\* line `Point=N,f1,...,fk` attached to a task is the waypoint that the
\* table-row codec makes of the row f1,...,fk under the column map of the
\* table (the waypoint of the table's own row, when the same fields stand
\* there), it is stored with index N, and a row that the codec rejects
\* fails the parse with the error of the codec.
C13_InlineColumnAlignment ==
  (Done /\ InlineInput) =>
    IF InlineWaypoint(input).ok
    THEN /\ result = Success
         /\ Len(tasks) = 2
         /\ tasks[1].points = << <<input.index, InlineWaypoint(input).val>> >>
         /\ input.table => waypoints = <<tasks[1].points[1][2]>>
         /\ tasks[2].points = <<>>
    ELSE /\ result.status = "err"
         /\ result.error = InlineWaypoint(input).err
         /\ tasks = <<>>

\* a Point line of all 14 fields under a reversed, rotated header has given
\* the waypoint of the table's row, with index 3
C13_Witness ==
  /\ Done
  /\ InlineInput
  /\ input.rev
  /\ input.rot = 5
  /\ input.row = 1
  /\ input.table
  /\ input.index = 3
  /\ result = Success
  /\ tasks[1].points = << <<3, waypoints[1]>> >>
  /\ waypoints[1].name = <<"L", "e", "s", "c", "e">>
  /\ waypoints[1].runway_direction = Some(144)

(***************************************************************************)
(* The field codecs on their own.  A run takes one text and gives it to    *)
(* one parser, or takes one value, formats it as the writer does and gives *)
(* the text to the parser of the same field.  `input` is what the run was  *)
(* started on, `content` the text for the parser, `result` what the parser *)
(* returned; the other variables keep their initial values.                *)
(***************************************************************************)
\* the parts a coordinate text is put together from
LatitudeDegreeTexts == {<<"0", "0">>, <<"5", "1">>, <<"8", "9">>, <<"9", "0">>, <<"9", "1">>, <<"9", "9">>, <<"5">>, <<"X", "1">>}
LongitudeDegreeTexts ==
  {<<"0", "0", "0">>, <<"0", "1", "4">>, <<"1", "7", "9">>, <<"1", "8", "0">>, <<"1", "8", "1">>, <<"2", "5", "5">>, <<"2", "5", "6">>, <<"9", "9", "9">>, <<"1", "4">>}
MinuteTexts == {<<"0", "0">>, <<"4", "7">>, <<"5", "9">>, <<"6", "0">>, <<"9", "9">>}
SeparatorTexts == {<<".">>, <<COMMA>>, <<>>}
FractionTexts == {<<"0", "0", "0">>, <<"8", "0", "9">>, <<"9", "9", "9">>, <<"8", "0", "9", "1">>, <<"8", "0">>, <<"8", "X", "9">>, <<>>}
HemisphereTexts == {<<"N">>, <<"S">>, <<"E">>, <<"W">>, <<"n">>, <<>>}

CoordinateTexts(degrees) ==
  {dd \o mm \o sep \o frac \o h :
     dd \in degrees, mm \in MinuteTexts, sep \in SeparatorTexts,
     frac \in FractionTexts, h \in HemisphereTexts}
    \cup {<<>>, <<"1", "2", "3", "N">>, <<SP, "5", "1", "4", "7", ".", "8", "0", "9", "N">>, <<"5", "1", "4", "7", ".", "8", "0", "9", "N", SP>>, <<"+", "1", "4", "7", ".", "8", "0", "9", "N">>}

\* coordinates to format: the ends of the range, ordinary values, and values
\* whose minutes are within half a thousandth of the next whole degree
LatitudeValues ==
  {0, Coord(51, 478090), 0 - Coord(51, 478094), Coord(90, 0), 0 - Coord(90, 0),
   Coord(0, 4), 0 - Coord(0, 6), Coord(51, 599994), Coord(51, 599996),
   0 - Coord(89, 599999)}
LongitudeValues ==
  {0, Coord(14, 104670), 0 - Coord(4, 50030), Coord(180, 0), 0 - Coord(180, 0),
   Coord(100, 4), 0 - Coord(0, 6), Coord(9, 599994), Coord(179, 599996),
   0 - Coord(99, 599999)}

\* numbers as they are written, with the value each one denotes
NumberValues ==
  << [text |-> <<"5", "0", "0">>, value |-> [neg |-> FALSE, n |-> 500, d |-> 0]],
     [text |-> <<"1", ".", "5">>, value |-> [neg |-> FALSE, n |-> 15, d |-> 1]],
     [text |-> <<"0">>, value |-> [neg |-> FALSE, n |-> 0, d |-> 0]],
     [text |-> <<"-", "1", "2", ".", "2", "5">>, value |-> [neg |-> TRUE, n |-> 1225, d |-> 2]],
     [text |-> <<"5", "0", "4", ".", "0">>, value |-> [neg |-> FALSE, n |-> 504, d |-> 0]],
     [text |-> <<".", "5">>, value |-> [neg |-> FALSE, n |-> 5, d |-> 1]],
     [text |-> <<"1", "1", "3", "0">>, value |-> [neg |-> FALSE, n |-> 1130, d |-> 0]] >>
\* what follows the number in a quantity text
UnitTexts ==
  {<<>>, <<"m">>, <<"f", "t">>, <<"k", "m">>, <<"n", "m">>, <<"m", "l">>, <<"m", "i">>, <<"M">>, <<"x", "y", "z">>, <<"c", "m">>,
   <<"m", SP>>, <<SP, "m">>, <<"m", "2">>}
\* texts without a number
QuantityTexts == {<<>>, <<"i", "n", "v", "a", "l", "i", "d">>, <<"m">>, <<"1", "2", "a", "b", "c">>, <<"1", COMMA, "5", "m">>}

DimensionTypes == {"Elevation", "RunwayDimension", "Distance"}
SuffixTable(type) ==
  CASE type = "Elevation" -> ElevationSuffixes
    [] type = "RunwayDimension" -> RunwayDimensionSuffixes
    [] type = "Distance" -> DistanceSuffixes
Variants(type) == {SuffixTable(type)[k].variant : k \in DOMAIN SuffixTable(type)}

\* style texts: the numbers around the known range and other texts
StyleTexts ==
  {NatToDigits(k) : k \in 0..(StyleLast + 2)}
    \cup {<<>>, <<"0", "5">>, <<"+", "5">>, <<SP, "5">>, <<"5", SP>>, <<"5", ".", "0">>, <<"-", "1">>, <<"a", "b", "c">>, <<"2", "5", "5">>,
          <<"2", "5", "6">>, <<"1", "x">>}

FieldInputs ==
  {[kind |-> "field", codec |-> "latitude", text |-> t] :
     t \in CoordinateTexts(LatitudeDegreeTexts)}
  \cup {[kind |-> "field", codec |-> "longitude", text |-> t] :
          t \in CoordinateTexts(LongitudeDegreeTexts)}
  \cup {[kind |-> "field", codec |-> type, number |-> n, unit |-> u,
         text |-> NumberValues[n].text \o u] :
          type \in DimensionTypes, n \in DOMAIN NumberValues, u \in UnitTexts}
  \cup {[kind |-> "field", codec |-> type, text |-> t] :
          type \in DimensionTypes, t \in QuantityTexts}
  \cup {[kind |-> "field", codec |-> "style", text |-> t] : t \in StyleTexts}

ValueInputs ==
  {[kind |-> "value", codec |-> "latitude", value |-> v] : v \in LatitudeValues}
  \cup {[kind |-> "value", codec |-> "longitude", value |-> v] : v \in LongitudeValues}
  \cup UNION {{[kind |-> "value", codec |-> type,
                 quantity |-> Quantity(variant, NumberValues[n].value)] :
                  variant \in Variants(type), n \in DOMAIN NumberValues} :
                type \in DimensionTypes}
  \cup {[kind |-> "value", codec |-> "style", value |-> k] : k \in StyleUnknown..StyleLast}

\* <$name as FromStr>::from_str and <$name as Display>::fmt of a type
ParseQuantity(type, s) ==
  CASE type = "Elevation" -> ParseElevation(s)
    [] type = "RunwayDimension" -> ParseRunwayDimension(s)
    [] type = "Distance" -> ParseDistance(s)
FormatQuantity(type, q) == dimension_fmt(SuffixTable(type), q)

FieldInit ==
  /\ input \in FieldInputs \cup ValueInputs
  /\ content = IF input.kind = "field" THEN input.text ELSE <<>>
  /\ pc = IF input.kind = "field" THEN "field" ELSE "format"
  /\ csv_iter = <<>>
  /\ column_map = None
  /\ waypoints = <<>>
  /\ tasks = <<>>
  /\ task = NoTask
  /\ result = Running

\* write_waypoint: `&format_latitude(waypoint.latitude)`
FormatLatitude ==
  /\ pc = "format"
  /\ input.codec = "latitude"
  /\ content' = format_latitude(input.value)
  /\ pc' = "field"
  /\ UNCHANGED <<input, csv_iter, column_map, waypoints, tasks, task, result>>

\* write_waypoint: `&format_longitude(waypoint.longitude)`
FormatLongitude ==
  /\ pc = "format"
  /\ input.codec = "longitude"
  /\ content' = format_longitude(input.value)
  /\ pc' = "field"
  /\ UNCHANGED <<input, csv_iter, column_map, waypoints, tasks, task, result>>

\* write_waypoint: `&waypoint.elevation.to_string()`, and the like
FormatDimension ==
  /\ pc = "format"
  /\ input.codec \in DimensionTypes
  /\ content' = FormatQuantity(input.codec, input.quantity)
  /\ pc' = "field"
  /\ UNCHANGED <<input, csv_iter, column_map, waypoints, tasks, task, result>>

\* write_waypoint: `&(waypoint.style as u8).to_string()`
FormatStyle ==
  /\ pc = "format"
  /\ input.codec = "style"
  /\ content' = NatToDigits(input.value)
  /\ pc' = "field"
  /\ UNCHANGED <<input, csv_iter, column_map, waypoints, tasks, task, result>>

\* parse_waypoint: `parse_latitude(lat_str)`
ParseLatitude ==
  /\ pc = "field"
  /\ input.codec = "latitude"
  /\ result' = parse_latitude(content)
  /\ pc' = "done"
  /\ UNCHANGED <<input, content, csv_iter, column_map, waypoints, tasks, task>>

\* parse_waypoint: `parse_longitude(lon_str)`
ParseLongitude ==
  /\ pc = "field"
  /\ input.codec = "longitude"
  /\ result' = parse_longitude(content)
  /\ pc' = "done"
  /\ UNCHANGED <<input, content, csv_iter, column_map, waypoints, tasks, task>>

\* parse_waypoint: `elev_str.parse()`, and the like
ParseDimension ==
  /\ pc = "field"
  /\ input.codec \in DimensionTypes
  /\ result' = ParseQuantity(input.codec, content)
  /\ pc' = "done"
  /\ UNCHANGED <<input, content, csv_iter, column_map, waypoints, tasks, task>>

\* parse_waypoint: `parse_waypoint_style(style_str)`
ParseStyle ==
  /\ pc = "field"
  /\ input.codec = "style"
  /\ result' = Ok(parse_waypoint_style(content))
  /\ pc' = "done"
  /\ UNCHANGED <<input, content, csv_iter, column_map, waypoints, tasks, task>>

FieldNext ==
  \/ FormatLatitude
  \/ FormatLongitude
  \/ FormatDimension
  \/ FormatStyle
  \/ ParseLatitude
  \/ ParseLongitude
  \/ ParseDimension
  \/ ParseStyle

FieldSpec == FieldInit /\ [][FieldNext]_vars

FieldText == input.kind = "field"
FieldValue == input.kind = "value"

CoordinateCodecs == {"latitude", "longitude"}
\* the number of degree digits, the hemisphere letters (positive first) and
\* the largest magnitude in degrees of the two coordinates
DegreeDigits(codec) == IF codec = "latitude" THEN 2 ELSE 3
Hemispheres(codec) == IF codec = "latitude" THEN <<"N", "S">> ELSE <<"E", "W">>
DegreeLimit(codec) == IF codec = "latitude" THEN 90 ELSE 180
\* DDMM.mmmH for a latitude, DDDMM.mmmH for a longitude, and nothing else
ExactShape(codec, s) ==
  LET dd == DegreeDigits(codec)
  IN /\ Len(s) = dd + 7
     /\ \A i \in (1..(dd + 2)) \cup ((dd + 4)..(dd + 6)) : s[i] \in Digits
     /\ s[dd + 3] = "."
     /\ s[dd + 7] \in {Hemispheres(codec)[1], Hemispheres(codec)[2]}
\* the parser returned an error
Rejected(r) == ~ r.ok /\ r.err.kind # "panic"

\* C14: parse_latitude returns a value only for a text of exactly 9
\* characters of the shape DDMM.mmm and N or S, parse_longitude only for a
\* text of exactly 10 characters of the shape DDDMM.mmm and E or W; for every
\* other text, shorter or longer, they return an error.
C14_CoordinateShape ==
  (Done /\ FieldText /\ input.codec \in CoordinateCodecs) =>
    /\ result.ok => ExactShape(input.codec, input.text)
    /\ ~ ExactShape(input.codec, input.text) => Rejected(result)

\* the degrees and the minutes (in units) that a text of exact shape shows
ShownDegrees(codec, s) == DigitsToNat(SubSeq(s, 1, DegreeDigits(codec)))
ShownMinutes(codec, s) ==
  LET dd == DegreeDigits(codec)
  IN DigitsToNat(SubSeq(s, dd + 1, dd + 2)) * UnitsPerMinute
       + DigitsToNat(SubSeq(s, dd + 4, dd + 6)) * (UnitsPerMinute \div 1000)
ShownNegative(codec, s) == s[Len(s)] = Hemispheres(codec)[2]

\* C15: for a coordinate text of exact shape, minutes of 60 or more give the
\* minutes-out-of-range error; otherwise the value is degrees + minutes/60,
\* negative for S and W, returned when its magnitude is at most 90 (latitude)
\* or 180 (longitude), and the out-of-range error is returned when it is
\* not; a returned value is always within these limits.
C15_CoordinateRange ==
  (Done /\ FieldText /\ input.codec \in CoordinateCodecs
     /\ ExactShape(input.codec, input.text)) =>
    LET codec == input.codec
        minutes == ShownMinutes(codec, input.text)
        magnitude == ShownDegrees(codec, input.text) * UnitsPerDegree + minutes
        limit == DegreeLimit(codec) * UnitsPerDegree
    IN /\ IF minutes >= 60 * UnitsPerMinute
          THEN Rejected(result) /\ result.err.kind = codec \o " minutes out of range"
          ELSE IF magnitude <= limit
          THEN result = Ok(IF ShownNegative(codec, input.text) THEN 0 - magnitude
                           ELSE magnitude)
          ELSE Rejected(result) /\ result.err.kind = codec \o " out of range"
       /\ result.ok => (result.val <= limit /\ 0 - result.val <= limit)

\* C16: for every latitude in [-90, 90] and every longitude in [-180, 180],
\* the formatted text has exactly 9 (10) characters, its minutes are below
\* 60, and the parser returns for it a value within 1e-4 degrees of the
\* original, also when the minutes round up at the third decimal.
C16_CoordinateFormatInverse ==
  (Done /\ FieldValue /\ input.codec \in CoordinateCodecs) =>
    /\ ExactShape(input.codec, content)
    /\ ShownMinutes(input.codec, content) < 60 * UnitsPerMinute
    /\ result.ok
    /\ Within(result.val, input.value)

DimensionField == input.codec \in DimensionTypes
\* a quantity text made of a number and what follows it
NumberAndUnit == FieldText /\ DimensionField /\ "number" \in DOMAIN input
SuffixesOf(type) == {SuffixTable(type)[k].suffix : k \in DOMAIN SuffixTable(type)}
VariantOf(type, suffix) ==
  SuffixTable(type)[CHOOSE k \in DOMAIN SuffixTable(type) :
                      SuffixTable(type)[k].suffix = suffix].variant
SuffixOf(type, variant) ==
  SuffixTable(type)[CHOOSE k \in DOMAIN SuffixTable(type) :
                      SuffixTable(type)[k].variant = variant].suffix

\* C17: for Elevation (ft, m), Distance (km, nm, ml, m) and RunwayDimension
\* (nm, ml, m), a number followed by a suffix of the type parses to the
\* variant of that suffix with that number, a number alone parses to Meters,
\* Meters is the result only for the suffix m or no suffix at all, and a
\* formatted value ends with the suffix of its variant and parses back to
\* the same variant and number.
C17_UnitSuffixPrecedence ==
  /\ (Done /\ NumberAndUnit /\ input.unit \in SuffixesOf(input.codec)) =>
       result = Ok(Quantity(VariantOf(input.codec, input.unit),
                            NumberValues[input.number].value))
  /\ (Done /\ NumberAndUnit /\ input.unit = <<>>) =>
       result = Ok(Quantity("Meters", NumberValues[input.number].value))
  /\ (Done /\ NumberAndUnit /\ result.ok /\ result.val.unit = "Meters") =>
       Trim(input.unit) \in {<<>>, <<"m">>}
  /\ (Done /\ FieldValue /\ DimensionField) =>
       /\ EndsWith(content, SuffixOf(input.codec, input.quantity.unit))
       /\ result = Ok(input.quantity)

\* the Distance text 1.5nm has been parsed to 1.5 nautical miles
C17_Witness ==
  /\ Done
  /\ NumberAndUnit
  /\ input.codec = "Distance"
  /\ input.text = <<"1", ".", "5", "n", "m">>
  /\ result = Ok(Quantity("NauticalMiles", [neg |-> FALSE, n |-> 15, d |-> 1]))

\* the name of a type in its error messages
QuantityName(type) ==
  CASE type = "Elevation" -> "elevation"
    [] type = "RunwayDimension" -> "runway dimension"
    [] type = "Distance" -> "distance"
\* the letters that end a text
RECURSIVE TrailingLetters(_)
TrailingLetters(s) ==
  IF s # <<>> /\ s[Len(s)] \in Letters
  THEN TrailingLetters(Take(s, Len(s) - 1)) \o <<s[Len(s)]>>
  ELSE <<>>

\* C18: a quantity text that ends in letters which are not a suffix of the
\* type is answered with the invalid-unit error that names these letters;
\* 500km as an Elevation is one of them.
C18_InvalidUnit ==
  (Done /\ FieldText /\ DimensionField
     /\ TrailingLetters(Trim(input.text)) # <<>>
     /\ TrailingLetters(Trim(input.text)) \notin SuffixesOf(input.codec)) =>
    result = Err(E("Invalid " \o QuantityName(input.codec) \o " unit",
                   TrailingLetters(Trim(input.text))))

StyleField == input.codec = "style"
\* C19: the style text is read as an unsigned integer; a text of an integer
\* from 1 to 21 gives the style of that number and every other text gives
\* Unknown, never an error; the writer writes the number of the style, and
\* that text parses back to the same style.
C19_StyleNeverFails ==
  /\ (Done /\ FieldText /\ StyleField) =>
       LET number == ParseUInt(input.text, U8Max)
       IN result = Ok(IF number.ok /\ number.val \in 1..StyleLast THEN number.val
                      ELSE StyleUnknown)
  /\ (Done /\ FieldValue /\ StyleField) =>
       /\ content = NatToDigits(input.value)
       /\ result = Ok(input.value)

RecordInput == input.kind = "record"
\* the canonical columns of the required fields: name, lat, lon, elev, style
RequiredFields == {1, 4, 5, 6, 7}
\* whether the record of a record input has a non-empty field for column c
FieldPresent(in, c) ==
  LET order == ColumnOrder(in.rot, in.rev, in.drop)
  IN /\ c # in.blank
     /\ \E i \in 1..in.keep : order[i] = c
\* the waypoint of the full row, with the default of every absent optional
\* field in its place
RecordWaypoint(in) ==
  LET w == RowWaypoint(1).val
  IN [w EXCEPT
        !.code = IF FieldPresent(in, 2) THEN @ ELSE <<>>,
        !.country = IF FieldPresent(in, 3) THEN @ ELSE <<>>,
        !.runway_direction = IF FieldPresent(in, 8) THEN @ ELSE None,
        !.runway_length = IF FieldPresent(in, 9) THEN @ ELSE None,
        !.runway_width = IF FieldPresent(in, 10) THEN @ ELSE None,
        !.frequency = IF FieldPresent(in, 11) THEN @ ELSE <<>>,
        !.description = IF FieldPresent(in, 12) THEN @ ELSE <<>>,
        !.userdata = IF FieldPresent(in, 13) THEN @ ELSE <<>>,
        !.pictures = IF FieldPresent(in, 14) THEN @ ELSE <<>>]

\* C20: under every column map, a row (possibly shorter than the header) in
\* which name, lat, lon, elev or style is missing or empty fails as a whole,
\* with the message that the name cannot be empty when the name is the one;
\* a row with all five gives a waypoint whatever optional fields are missing
\* or empty, each of these being the empty string (code, country, freq,
\* desc, userdata), absent (rwdir, rwlen, rwwidth) or the empty list (pics).
C20_RequiredFields ==
  (Done /\ RecordInput) =>
    IF \E c \in RequiredFields : ~ FieldPresent(input, c)
    THEN /\ result.status = "err"
         /\ waypoints = <<>>
         /\ ~ FieldPresent(input, 1) =>
              result.error = E("Name field cannot be empty", <<>>)
    ELSE /\ result = Success
         /\ waypoints = <<RecordWaypoint(input)>>

(***************************************************************************)
(* The lines of the written file.                                          *)
(***************************************************************************)
Written == CupInput /\ pc # "write"

\* the text cut at its newlines, every one of which ends a line
WrittenLines ==
  LET ends == Ascending({i \in 1..Len(content) : content[i] = NL})
  IN [k \in 1..Len(ends) |->
        SubSeq(content, IF k = 1 THEN 1 ELSE ends[k - 1] + 1, ends[k] - 1)]

LineKind(line) ==
  IF StartsWith(line, PrefixOptions) THEN "Options"
  ELSE IF StartsWith(line, PrefixObsZone) THEN "ObsZone"
  ELSE IF StartsWith(line, PrefixPoint) THEN "Point"
  ELSE IF StartsWith(line, PrefixStarts) THEN "STARTS"
  ELSE "header"

ExpectedKinds(t) ==
  <<"header">>
    \o (IF t.options.some THEN <<"Options">> ELSE <<>>)
    \o [i \in 1..Len(t.observation_zones) |-> "ObsZone"]
    \o [i \in 1..Len(t.points) |-> "Point"]
    \o (IF t.multiple_starts # <<>> THEN <<"STARTS">> ELSE <<>>)

TaskZones(t) == t.observation_zones
TaskPoints(t) == t.points
WrittenObsZone(line) == LineKind(line) = "ObsZone"
WrittenPoint(line) == LineKind(line) = "Point"
ZoneLineStart(zone) == PrefixObsZone \o NatToDigits(zone.index) \o <<COMMA>>
PointLineStart(point) ==
  PrefixPoint \o NatToDigits(point[1]) \o <<COMMA>> \o CsvField(point[2].name) \o <<COMMA>>

EachStartsWith(lines, starts) ==
  /\ Len(lines) = Len(starts)
  /\ \A i \in 1..Len(lines) : StartsWith(lines[i], starts[i])

WriterLineOrder(lines, cup) ==
  LET rows == Len(cup.waypoints)
      rest == SubSeq(lines, rows + 3, Len(lines))
  IN /\ Len(lines) >= rows + 1
     /\ lines[1] = Join(CanonicalHeader, <<COMMA>>)
     /\ \A i \in 1..rows :
          StartsWith(lines[i + 1], CsvField(cup.waypoints[i].name) \o <<COMMA>>)
     /\ IF cup.tasks = <<>>
        THEN Len(lines) = rows + 1
        ELSE /\ Len(lines) >= rows + 2
             /\ lines[rows + 2] = TASK_SEPARATOR
             /\ Map(LineKind, rest) = Concat(Map(ExpectedKinds, cup.tasks))
             /\ EachStartsWith(SelectSeq(rest, WrittenObsZone),
                               Map(ZoneLineStart, Concat(Map(TaskZones, cup.tasks))))
             /\ EachStartsWith(SelectSeq(rest, WrittenPoint),
                               Map(PointLineStart, Concat(Map(TaskPoints, cup.tasks))))

PointFields(point) == <<PrefixPoint \o NatToDigits(point[1])>> \o WaypointFields(point[2])

\* the start names, the first one behind the line's prefix
StartsFields(starts) == <<PrefixStarts \o Head(starts)>> \o Tail(starts)

TaskLineFields(t) ==
  << <<unwrap_or_default(t.description)>> \o t.waypoint_names >>
    \o (IF t.options.some THEN <<task_options_parts(t.options.v)>> ELSE <<>>)
    \o Map(observation_zone_parts, t.observation_zones)
    \o Map(PointFields, t.points)
    \o (IF t.multiple_starts # <<>> THEN <<StartsFields(t.multiple_starts)>> ELSE <<>>)

EmittedFields(cup) ==
  <<CanonicalHeader>>
    \o Map(WaypointFields, cup.waypoints)
    \o (IF cup.tasks # <<>>
        THEN << <<TASK_SEPARATOR>> >> \o Concat(Map(TaskLineFields, cup.tasks))
        ELSE <<>>)

\* the line, read on its own as CSV, is one record of exactly these fields
ReadsBackAs(line, fields) ==
  LET records == CsvRecords(line \o <<NL>>)
  IN Len(records) = 1 /\ records[1].fields = fields

\* C22: every line the writer emits, read back as CSV, has as many fields
\* as the writer put on it, with the same values.
C22_UniformQuoting ==
  Written =>
    /\ Len(WrittenLines) = Len(EmittedFields(input.cup))
    /\ \A i \in 1..Len(WrittenLines) :
         ReadsBackAs(WrittenLines[i], EmittedFields(input.cup)[i])

(***************************************************************************)
(* One attachment line behind a task header.                               *)
(***************************************************************************)
AttachInput == input.kind = "attach"
OptionsInput == AttachInput /\ input.first = PrefixOptions
ObsZoneInput == AttachInput /\ StartsWith(input.first, PrefixObsZone)
PointInput == AttachInput /\ StartsWith(input.first, PrefixPoint)

\* the optional numeric sub-fields and the record fields they fill
IntegerKeys == {<<"M", "a", "x", "P", "t", "s">>, <<"B", "e", "f", "o", "r", "e", "P", "t", "s">>, <<"A", "f", "t", "e", "r", "P", "t", "s">>}
FloatKeys == {<<"B", "o", "n", "u", "s">>, <<"A", "1">>, <<"A", "2">>, <<"A", "1", "2">>}
TextKeys ==
  {<<"N", "o", "S", "t", "a", "r", "t">>, <<"T", "a", "s", "k", "T", "i", "m", "e">>, <<"W", "p", "D", "i", "s">>, <<"N", "e", "a", "r", "D", "i", "s">>, <<"N", "e", "a", "r", "A", "l", "t">>, <<"M", "i", "n", "D", "i", "s">>,
   <<"R", "a", "n", "d", "o", "m", "O", "r", "d", "e", "r">>, <<"O", "b", "s", "Z", "o", "n", "e">>, <<"S", "t", "y", "l", "e">>, <<"R", "1">>, <<"R", "2">>, <<"L", "i", "n", "e">>}
FieldOfKey(key) ==
  CASE key = <<"M", "a", "x", "P", "t", "s">> -> "max_pts" [] key = <<"B", "e", "f", "o", "r", "e", "P", "t", "s">> -> "before_pts"
    [] key = <<"A", "f", "t", "e", "r", "P", "t", "s">> -> "after_pts" [] key = <<"B", "o", "n", "u", "s">> -> "bonus"
    [] key = <<"A", "1">> -> "a1" [] key = <<"A", "2">> -> "a2" [] key = <<"A", "1", "2">> -> "a12"

HasKey(part, keys) == split_once(part).some /\ split_once(part).v.key \in keys
Unparsable(part) ==
  \/ HasKey(part, IntegerKeys) /\ ~ ParseUInt(split_once(part).v.value, U32Max).ok
  \/ HasKey(part, FloatKeys) /\ ~ ParseF64(split_once(part).v.value).ok
\* the sub-field has a key of the grammar and, if numeric, a value
Effective(part) ==
  HasKey(part, IntegerKeys \cup FloatKeys \cup TextKeys) /\ ~ Unparsable(part)

\* the fields whose last sub-field on the line is unparsable
AbsentFields(parts) ==
  {FieldOfKey(split_once(parts[i]).v.key) :
     i \in {i \in 1..Len(parts) :
              /\ Unparsable(parts[i])
              /\ \A j \in (i + 1)..Len(parts) :
                   ~ HasKey(parts[j], {split_once(parts[i]).v.key})}}

\* got is what usual is, except that the fields of `absent` are absent
SameBut(got, usual, absent) ==
  \A f \in DOMAIN usual : got[f] = IF f \in absent THEN None ELSE usual[f]

\* C23: an Options or ObsZone line reads as the same line without its
\* unparsable optional numeric sub-fields, its sub-fields of unknown key and
\* its sub-fields without `=`: when that line is accepted so is this one,
\* with the same values and with the field of an unparsable sub-field
\* absent, and when that line is rejected so is this one.
C23_UnparsableSubFieldIgnored ==
  /\ Done /\ OptionsInput =>
       LET usual == parse_options_line(<<input.first>> \o SelectSeq(input.parts, Effective))
       IN IF usual.ok
          THEN /\ result = Success
               /\ Len(tasks) = 1
               /\ tasks[1].options.some
               /\ SameBut(tasks[1].options.v, usual.val, AbsentFields(input.parts))
          ELSE result.status = "err"
  /\ Done /\ ObsZoneInput =>
       LET usual == parse_obszone_line(<<input.first>> \o SelectSeq(input.parts, Effective))
       IN IF usual.ok
          THEN /\ result = Success
               /\ Len(tasks) = 1
               /\ Len(tasks[1].observation_zones) = 1
               /\ SameBut(tasks[1].observation_zones[1], usual.val, AbsentFields(input.parts))
          ELSE result.status = "err"

\* `Options,MaxPts=x,Bonus=1.5` was read: no MaxPts, the bonus 1.5
C23_Witness ==
  /\ Done /\ OptionsInput
  /\ input.parts = <<<<"M", "a", "x", "P", "t", "s", "=", "x">>, <<"B", "o", "n", "u", "s", "=", "1", ".", "5">>>>
  /\ result = Success
  /\ tasks[1].options.v.max_pts = None
  /\ tasks[1].options.v.bonus = Some(Dec(15, 1))

\* the sub-fields of the line that carry one of these keys
ValuesOf(parts, keys) ==
  LET with == SelectSeq(parts, LAMBDA part : HasKey(part, keys))
  IN {split_once(with[i]).v.value : i \in 1..Len(with)}

BadObsZone(in) ==
  \/ ~ ParseUInt(Drop(in.first, Len(PrefixObsZone)), U32Max).ok
  \/ \A v \in ValuesOf(in.parts, {<<"S", "t", "y", "l", "e">>}) :
       ~ ParseUInt(v, U8Max).ok \/ ParseUInt(v, U8Max).val > ObsZoneStyleLast
  \/ \E v \in ValuesOf(in.parts, {<<"R", "1">>, <<"R", "2">>}) : ~ ParseDistance(v).ok

BadOptions(in) ==
  \/ \E v \in ValuesOf(in.parts, {<<"N", "e", "a", "r", "D", "i", "s">>}) : ~ ParseDistance(v).ok
  \/ \E v \in ValuesOf(in.parts, {<<"N", "e", "a", "r", "A", "l", "t">>}) : ~ ParseElevation(v).ok

BadPoint(in, map) ==
  \/ ~ ParseUInt(Drop(in.first, Len(PrefixPoint)), UsizeMax).ok
  \/ ~ parse_waypoint(map, in.parts).ok

BadAttachment ==
  \/ OptionsInput /\ BadOptions(input)
  \/ ObsZoneInput /\ BadObsZone(input)
  \/ PointInput /\ BadPoint(input, column_map.v)

\* C24: when the attachment line behind a task header has an ObsZone index
\* that is missing or no integer, no ObsZone style that is an integer in
\* 0..4, an R1, R2, NearDis or NearAlt value the unit codec rejects, a Point
\* index that is no integer or a Point waypoint that fails to parse, the
\* parse returns an error.
C24_AttachmentFailuresFatal ==
  Done /\ AttachInput /\ BadAttachment => result.status = "err"

\* `ObsZone=0,Style=5` was read and the parse failed for want of a style
C24_Witness ==
  /\ Done /\ ObsZoneInput
  /\ input.first = <<"O", "b", "s", "Z", "o", "n", "e", "=", "0">>
  /\ input.parts = <<<<"S", "t", "y", "l", "e", "=", "5">>>>
  /\ BadAttachment
  /\ result.status = "err"
  /\ result.error.kind = "Missing ObsZone style"

\* a start name free of commas, quotes and surrounding whitespace
PlainName(s) ==
  /\ s # <<>>
  /\ \A i \in 1..Len(s) : s[i] \notin {COMMA, QUOTE}
  /\ Trim(s) = s

\* C25: the start names of every written task, when free of commas, quotes
\* and surrounding whitespace, are read back as the same list of names.
C25_StartsRoundTrip ==
  Done /\ CupInput /\ result = Success /\ Len(tasks) = Len(input.cup.tasks) =>
    \A k \in 1..Len(tasks) :
      LET starts == input.cup.tasks[k].multiple_starts
      IN (starts # <<>> /\ \A i \in 1..Len(starts) : PlainName(starts[i])) =>
           tasks[k].multiple_starts = starts

\* the lines of the section that are not blank (empty or whitespace-only)
\* and carry none of the four marker prefixes
HeaderLines(lines) == OfKind(lines, LineHeader)

MarkedField(field) ==
  \/ StartsWith(field, PrefixOptions) \/ StartsWith(field, PrefixObsZone)
  \/ StartsWith(field, PrefixPoint) \/ StartsWith(field, PrefixStarts)

\* C27: the line behind the task header is an attachment of that task when
\* its first field starts with `Options`, `ObsZone=`, `Point=` or `STARTS=`,
\* and otherwise a task header of its own, whatever its later fields hold.
C27_ClassifiedByFirstField ==
  Done /\ AttachInput /\ result = Success =>
    IF MarkedField(input.first)
    THEN Len(tasks) = 1
    ELSE /\ Len(tasks) = 2
         /\ tasks[2] = parse_task_line(<<input.first>> \o input.parts).val

RunwayInput == input.kind = "runway"
RunwayFieldName(column) ==
  CASE column = 8 -> "runway_direction" [] column = 9 -> "runway_length"
    [] column = 10 -> "runway_width"
RunwayUnparsable(column, text) ==
  IF column = 8 THEN ~ parse_runway_direction(text).ok
  ELSE ~ ParseRunwayDimension(text).ok

\* C28: a row whose runway direction, length or width is not empty and does
\* not parse is read as the waypoint of the row with that field absent and
\* every other field as in the row, and the parse succeeds.
C28_RunwayFieldIgnored ==
  LET column == RunwayFieldValues[input.field][1]
      text == RunwayFieldValues[input.field][2]
      intact == parse_waypoint(CanonicalColumnMap, RowValues[1]).val
  IN Done /\ RunwayInput /\ RunwayUnparsable(column, text) =>
       /\ result = Success
       /\ waypoints = <<[intact EXCEPT ![RunwayFieldName(column)] = None]>>

\* C29: parse_latitude and parse_longitude answer every text with a value
\* or an error and never abort, and a longitude text of valid shape with
\* degrees from 181 to 999 is answered with the out-of-range error.
C29_CoordinateParsersTotal ==
  Done /\ FieldText /\ input.codec \in CoordinateCodecs =>
    /\ result.ok \/ Rejected(result)
    /\ (/\ input.codec = "longitude"
        /\ ExactShape(input.codec, input.text)
        /\ ShownDegrees(input.codec, input.text) > DegreeLimit(input.codec)
        /\ ShownMinutes(input.codec, input.text) < 60 * UnitsPerMinute) =>
         Rejected(result) /\ result.err.kind = "longitude out of range"

\* the text behind `Point=` and, when it is a number, its digits without
\* leading zeros
IndexText == Drop(input.first, Len(PrefixPoint))
IndexDigits == StripZeros(IndexText)
FitsU32(digits) ==
  Len(digits) < Len(U32Max) \/ (Len(digits) = Len(U32Max) /\ DigitsLeq(digits, U32Max))

\* C30: behind a task header, a Point line with a good waypoint and a
\* non-negative integer index gives a point with exactly that index when the
\* index fits in 32 bits, and makes the parse fail when it does not; the
\* Point lines of a task keep their indices in order, equal ones included.
C30_PointIndex ==
  /\ (/\ Done /\ PointInput
      /\ IndexText # <<>> /\ AllDigits(IndexText)
      /\ parse_waypoint(column_map.v, input.parts).ok) =>
       IF FitsU32(IndexDigits)
       THEN /\ result = Success
            /\ Len(tasks) = 1
            /\ Len(tasks[1].points) = 1
            /\ NatToDigits(tasks[1].points[1][1]) = IndexDigits
       ELSE result.status = "err"
  /\ (/\ Done /\ TasksInput
      /\ input.lines # <<>>
      /\ input.lines[1] \in LineHeader
      /\ \A i \in 2..Len(input.lines) : input.lines[i] \in LinePoint) =>
       /\ result = Success
       /\ Len(tasks) = 1
       /\ Len(tasks[1].points) = Len(input.lines) - 1
       /\ \A i \in 2..Len(input.lines) :
            LineFields(input.lines[i])[1]
              = PrefixPoint \o NatToDigits(tasks[1].points[i - 1][1])

====
